---- MODULE Spec2Model ----
(***************************************************************************)
(* Hourly work log API: owner-scoped CRUD over Employers, Shifts and       *)
(* Adjustments kept in a document store, with per-shift hours/pay and      *)
(* day/month totals.  The state is the three store collections, the wall   *)
(* clock and the outcome of the request handled last.  One action is one   *)
(* call of a service function, or one HTTP request handled from the first  *)
(* middleware to the response.                                             *)
(***************************************************************************)
EXTENDS Integers, Sequences, FiniteSets, TLC

VARIABLES
    shifts,       \* collection "shifts":      id -> stored document data
    employers,    \* collection "employers":   id -> stored document data
    adjustments,  \* collection "adjustments": id -> stored document data
    now,          \* the wall clock read by `new Date()`
    last,         \* what the request handled last did and answered
    seen,         \* employer id -> the rate resolved by the first watched listing
                  \* that met the employer (an observation, not program state)
    inflight,     \* task -> the updateShift call it runs, between its awaits
    listing       \* the getAllShifts call in progress, between its awaits

vars == <<shifts, employers, adjustments, now, last, seen, inflight, listing>>

---------------------------------------------------------------------------
(* Bounds of the model *)

\* The number of documents a collection holds at most
MaxShifts == 1
MaxEmployers == 1
MaxAdjustments == 1
\* The number of shifts in the store a listing reads
MaxListed == 2

\* The identifiers the store generates
ShiftIds == 1..MaxShifts
EmployerIds == 1..MaxEmployers
AdjustmentIds == 1..MaxAdjustments
\* The identifiers a request may name: one more than the store ever generates,
\* so that a reference can dangle and a lookup can miss.
ShiftRefs == 1..(MaxShifts + 1)
EmployerRefs == 1..(MaxEmployers + 1)
AdjustmentRefs == 1..(MaxAdjustments + 1)

\* The owners the service is called for
Owners == {"demo-user", "B"}

\* The instants the wall clock shows (seconds since 2025-01-01T00:00:00Z)
ClockReadings == {70000, 80000}
FirstReading == CHOOSE t \in ClockReadings : \A u \in ClockReadings : t <= u

---------------------------------------------------------------------------
(* JavaScript values *)

\* undefined (an absent optional field, an absent header)
None == <<>>
Some(v) == <<v>>

\* Identifiers are numbered; 0 stands for the empty string.
\* `options?.employerId ? ... : true`: a string is truthy unless it is empty
Truthy(opt) == opt # None /\ opt[1] # 0

\* data.field, undefined when the document has no such field
Field(data, f) == IF f \in DOMAIN data THEN Some(data[f]) ELSE None

\* The tasks that run updateShift calls side by side, and a task running none
Tasks == {"first", "second"}
Idle == [pc |-> "idle", owner |-> None, id |-> 0, input |-> None, existing |-> None,
         out |-> None, writes |-> 0]

\* The values a rate field of an employer document can hold, with their
\* `typeof`: a number (in cents), null, or a string.
Number(n) == [type |-> "number", n |-> n]
Null == [type |-> "null"]
String(s) == [type |-> "string", s |-> s]

\* `value ?? other` passes over undefined and null only
Nullish(opt) == opt = None \/ opt[1] = Null

\* A native Date and a Firestore Timestamp holding the same instant
\* (seconds since 2025-01-01T00:00:00Z).
Date(t) == [kind |-> "Date", t |-> t]
Timestamp(t) == [kind |-> "Timestamp", t |-> t]

\* The ISO-8601 strings the requests carry
IsoTimes == {"2025-01-01T09:00:00.000Z", "2025-01-01T17:00:00.000Z"}

\* new Date(isoString)
NewDate(iso) ==
    CASE iso = "2025-01-01T09:00:00.000Z" -> Date(32400)
      [] iso = "2025-01-01T09:20:00.000Z" -> Date(33600)
      [] iso = "2025-01-01T17:00:00.000Z" -> Date(61200)
      [] iso = "2025-01-01T23:00:00.000Z" -> Date(82800)
      [] iso = "2025-01-02T01:00:00.000Z" -> Date(90000)
      [] iso = "2025-01-31T22:00:00.000Z" -> Date(2671200)
      [] iso = "2025-02-01T02:00:00.000Z" -> Date(2685600)

toDateFromUnknown(value) ==
    IF value.kind = "Timestamp" THEN Date(value.t) ELSE value

HTTP_STATUS ==
    [OK |-> 200, CREATED |-> 201, BAD_REQUEST |-> 400, UNAUTHORIZED |-> 401,
     FORBIDDEN |-> 403, INTERNAL_SERVER_ERROR |-> 500]

---------------------------------------------------------------------------
(* firestoreRepository: the store calls.  Firestore keeps a Date as a      *)
(* Timestamp; a collection is read in document-id order.                   *)

DateFields == {"startTime", "endTime", "date", "createdAt", "updatedAt"}

ToStored(data) ==
    [f \in DOMAIN data |->
        IF f \in DateFields THEN Timestamp(data[f].t) ELSE data[f]]

createDocument(collection, id, data) == (id :> ToStored(data)) @@ collection

RECURSIVE SortedIds(_)
SortedIds(ids) ==
    IF ids = {} THEN <<>>
    ELSE LET m == CHOOSE i \in ids : \A j \in ids : i <= j
         IN <<m>> \o SortedIds(ids \ {m})

getDocuments(collection) ==
    LET ids == SortedIds(DOMAIN collection)
    IN [i \in 1..Len(ids) |-> [id |-> ids[i], data |-> collection[ids[i]]]]

\* null unless the document exists
getDocumentById(collection, id) ==
    IF id \in DOMAIN collection
    THEN Some([id |-> id, exists |-> TRUE, data |-> collection[id]])
    ELSE None

\* merges the given fields into the document
updateDocument(collection, id, data) ==
    LET stored == ToStored(data)
    IN [collection EXCEPT
          ![id] = [f \in (DOMAIN @) \cup (DOMAIN stored) |->
                     IF f \in DOMAIN stored THEN stored[f] ELSE @[f]]]

deleteDocument(collection, id) ==
    [k \in (DOMAIN collection) \ {id} |-> collection[k]]

\* One entry of a request's log of store calls
Call(fn, collectionName, id) == [fn |-> fn, collection |-> collectionName, id |-> id]

---------------------------------------------------------------------------
(* Outcomes of a service function *)

Ok(value, calls) == [ok |-> TRUE, error |-> None, value |-> value, calls |-> calls]
Throw(message, calls) == [ok |-> FALSE, error |-> Some(message), value |-> None, calls |-> calls]

\* `${EntityType} with id ${id} not found`
NotFound(entityType, id) == <<entityType, "with id", id, "not found">>

---------------------------------------------------------------------------
(* shiftService *)

\* Math.round(x) for x = n / d, d > 0: halves go up
RoundDiv(n, d) == (2 * n + d) \div (2 * d)

\* hours in hundredths of an hour, from a duration in seconds
millisecondsToHours(seconds) == RoundDiv(seconds, 36)

\* A lookup that falls back to a default rate instead of 0
getEmployerHourlyRate_defaultRate(employerId) ==
    LET document == getDocumentById(employers, employerId)
    IN IF document = None THEN 1500
       ELSE LET data == document[1].data
            IN IF ~Nullish(Field(data, "rate")) /\ data.rate.type = "number" /\ data.rate.n > 0
               THEN data.rate.n
               ELSE 1500

\* rate and tips in cents; the rate read from `rate`, else `hourlyRate`, else 0
getEmployerHourlyRate(employerId) ==
    LET document == getDocumentById(employers, employerId)
    IN IF document = None THEN 0
       ELSE LET data == document[1].data
                candidate == IF ~Nullish(Field(data, "rate")) THEN data.rate
                             ELSE IF ~Nullish(Field(data, "hourlyRate")) THEN data.hourlyRate
                             ELSE Number(0)
            IN IF candidate.type = "number" /\ candidate.n > 0 THEN candidate.n ELSE 0

\* Hours that never fall below zero
computeHoursAndPay_clamped(shift, employerRate) ==
    LET seconds == shift.endTime.t - shift.startTime.t
        hours == IF seconds < 0 THEN 0 ELSE millisecondsToHours(seconds)
        tips == IF shift.tips = None THEN 0 ELSE shift.tips[1]
    IN [hours |-> hours, pay |-> RoundDiv(hours * employerRate + 100 * tips, 100)]

\* Pay from the unrounded duration
computeHoursAndPay_rawDuration(shift, employerRate) ==
    LET seconds == shift.endTime.t - shift.startTime.t
        tips == IF shift.tips = None THEN 0 ELSE shift.tips[1]
    IN [hours |-> millisecondsToHours(seconds),
        pay |-> RoundDiv(seconds * employerRate + 3600 * tips, 3600)]

computeHoursAndPay(shift, employerRate) ==
    LET seconds == shift.endTime.t - shift.startTime.t
        hours == millisecondsToHours(seconds)
        tips == IF shift.tips = None THEN 0 ELSE shift.tips[1]
    IN [hours |-> hours, pay |-> RoundDiv(hours * employerRate + 100 * tips, 100)]

\* The Shift entity built from a stored document
ShiftOf(id, data) ==
    [id |-> id,
     ownerUserId |-> data.ownerUserId,
     employerId |-> data.employerId,
     startTime |-> toDateFromUnknown(data.startTime),
     endTime |-> toDateFromUnknown(data.endTime),
     tips |-> data.tips,
     createdAt |-> toDateFromUnknown(data.createdAt),
     updatedAt |-> toDateFromUnknown(data.updatedAt)]

\* The listing with the owner filter left out
UserShifts_anyOwner(ownerUserId, employerId) ==
    LET docs == getDocuments(shifts)
        all == [i \in 1..Len(docs) |-> ShiftOf(docs[i].id, docs[i].data)]
        KeepEmployer(shift) ==
            IF Truthy(employerId) THEN shift.employerId = employerId[1] ELSE TRUE
    IN SelectSeq(all, KeepEmployer)

\* The listing with the employer filter left out
UserShifts_anyEmployer(ownerUserId, employerId) ==
    LET docs == getDocuments(shifts)
        all == [i \in 1..Len(docs) |-> ShiftOf(docs[i].id, docs[i].data)]
        KeepOwner(shift) == shift.ownerUserId = ownerUserId
    IN SelectSeq(all, KeepOwner)

\* snapshot.docs.map(...).filter(owner).filter(employer)
UserShifts(ownerUserId, employerId) ==
    LET docs == getDocuments(shifts)
        all == [i \in 1..Len(docs) |-> ShiftOf(docs[i].id, docs[i].data)]
        KeepOwner(shift) == shift.ownerUserId = ownerUserId
        KeepEmployer(shift) ==
            IF Truthy(employerId) THEN shift.employerId = employerId[1] ELSE TRUE
    IN SelectSeq(SelectSeq(all, KeepOwner), KeepEmployer)

\* employerRateCache.get(employerId): undefined when the cache has no entry
CacheGet(employerRateCache, employerId) ==
    IF employerId \in DOMAIN employerRateCache
    THEN Some(employerRateCache[employerId]) ELSE None

\* { ...shiftItem, hours, pay }
ShiftWithComputed(shiftItem, computed) ==
    [f \in (DOMAIN shiftItem) \cup {"hours", "pay"} |->
        CASE f = "hours" -> computed.hours
          [] f = "pay" -> computed.pay
          [] OTHER -> shiftItem[f]]

\* The loop with a cached rate of 0 taken for a missing entry
RECURSIVE EnrichFrom_falsyRate(_, _, _, _, _)
EnrichFrom_falsyRate(userShifts, i, employerRateCache, shiftsWithComputed, calls) ==
    IF i > Len(userShifts)
    THEN [items |-> shiftsWithComputed, calls |-> calls]
    ELSE LET shiftItem == userShifts[i]
             cached == CacheGet(employerRateCache, shiftItem.employerId)
             employerRate == IF ~Truthy(cached)
                             THEN getEmployerHourlyRate(shiftItem.employerId)
                             ELSE cached[1]
             computed == computeHoursAndPay(shiftItem, employerRate)
         IN EnrichFrom_falsyRate(
               userShifts, i + 1,
               IF ~Truthy(cached)
               THEN (shiftItem.employerId :> employerRate) @@ employerRateCache
               ELSE employerRateCache,
               Append(shiftsWithComputed, ShiftWithComputed(shiftItem, computed)),
               IF ~Truthy(cached)
               THEN Append(calls, Call("getDocumentById", "employers", shiftItem.employerId))
               ELSE calls)

\* The loop over userShifts: the rate of an employer is looked up when the
\* cache has no entry for it, and kept in the cache.
RECURSIVE EnrichFrom(_, _, _, _, _)
EnrichFrom(userShifts, i, employerRateCache, shiftsWithComputed, calls) ==
    IF i > Len(userShifts)
    THEN [items |-> shiftsWithComputed, calls |-> calls]
    ELSE LET shiftItem == userShifts[i]
             cached == CacheGet(employerRateCache, shiftItem.employerId)
             employerRate == IF cached = None
                             THEN getEmployerHourlyRate(shiftItem.employerId)
                             ELSE cached[1]
             computed == computeHoursAndPay(shiftItem, employerRate)
         IN EnrichFrom(
               userShifts, i + 1,
               IF cached = None
               THEN (shiftItem.employerId :> employerRate) @@ employerRateCache
               ELSE employerRateCache,
               Append(shiftsWithComputed, ShiftWithComputed(shiftItem, computed)),
               IF cached = None
               THEN Append(calls, Call("getDocumentById", "employers", shiftItem.employerId))
               ELSE calls)

\* The UTC calendar day of an instant of the year 2025, as <<year, month, day>>
\* (toISOString().slice(0, 10)), and its month (slice(0, 7)).
MonthLengths == <<31, 28, 31, 30, 31, 30, 31, 31, 30, 31, 30, 31>>

RECURSIVE MonthDay(_, _)
MonthDay(month, dayOfYear) ==
    IF dayOfYear < MonthLengths[month] THEN <<month, dayOfYear + 1>>
    ELSE MonthDay(month + 1, dayOfYear - MonthLengths[month])

formatIsoDate(date) ==
    LET md == MonthDay(1, date.t \div 86400) IN <<2025, md[1], md[2]>>

formatYearMonth(date) == SubSeq(formatIsoDate(date), 1, 2)

\* Sums of hours and pay per key, each sum rounded once after accumulation.
\* keySelector is a function from items to their grouping key.
RECURSIVE SumOver(_, _, _, _)
SumOver(items, keySelector, key, field) ==
    IF items = <<>> THEN 0
    ELSE (IF keySelector[Head(items)] = key THEN Head(items)[field] ELSE 0)
         + SumOver(Tail(items), keySelector, key, field)

aggregateTotals(items, keySelector) ==
    LET keys == {keySelector[items[i]] : i \in 1..Len(items)}
    IN [k \in keys |->
          [hours |-> RoundDiv(SumOver(items, keySelector, k, "hours"), 1),
           pay |-> RoundDiv(SumOver(items, keySelector, k, "pay"), 1)]]

\* Grouping by the day on which a shift ends
DayKey_byEndTime(items) ==
    [item \in {items[i] : i \in 1..Len(items)} |-> formatIsoDate(item.endTime)]

\* (shift) => formatIsoDate(shift.startTime)
DayKey(items) ==
    [item \in {items[i] : i \in 1..Len(items)} |-> formatIsoDate(item.startTime)]

\* (shift) => formatYearMonth(shift.startTime)
MonthKey(items) ==
    [item \in {items[i] : i \in 1..Len(items)} |-> formatYearMonth(item.startTime)]

\* The listing whose rate cache starts from the rates of earlier listings
getAllShifts_keepsCache(ownerUserId, options) ==
    LET userShifts == UserShifts(ownerUserId, options.employerId)
        done == EnrichFrom(userShifts, 1, seen, <<>>,
                           <<Call("getDocuments", "shifts", 0)>>)
    IN Ok([items |-> done.items, totals |-> None], done.calls)

\* The listing whose totals run over all of the owner's shifts
getAllShifts_totalsOverAll(ownerUserId, options) ==
    LET done == EnrichFrom(UserShifts(ownerUserId, options.employerId), 1, <<>>, <<>>,
                           <<Call("getDocuments", "shifts", 0)>>)
        all == EnrichFrom(UserShifts(ownerUserId, None), 1, <<>>, <<>>, <<>>).items
    IN IF options.includeTotals
       THEN Ok([items |-> done.items,
                totals |-> Some([byDay |-> aggregateTotals(all, DayKey(all)),
                                 byMonth |-> aggregateTotals(all, MonthKey(all))])],
               done.calls)
       ELSE Ok([items |-> done.items, totals |-> None], done.calls)

getAllShifts(ownerUserId, options) ==
    LET userShifts == UserShifts(ownerUserId, options.employerId)
        done == EnrichFrom(userShifts, 1, <<>>, <<>>,
                           <<Call("getDocuments", "shifts", 0)>>)
    IN IF options.includeTotals
       THEN Ok([items |-> done.items,
                totals |-> Some([byDay |-> aggregateTotals(done.items, DayKey(done.items)),
                                 byMonth |-> aggregateTotals(done.items, MonthKey(done.items))])],
               done.calls)
       ELSE Ok([items |-> done.items, totals |-> None], done.calls)

\* The lookup that tells another owner's shift from a missing one
getShiftById_forbidden(ownerUserId, shiftId) ==
    LET document == getDocumentById(shifts, shiftId)
        calls == <<Call("getDocumentById", "shifts", shiftId)>>
    IN IF document = None THEN Throw(NotFound("Shift", shiftId), calls)
       ELSE IF document[1].data.ownerUserId # ownerUserId
            THEN Throw(<<"Shift", "with id", shiftId, "belongs to another user">>, calls)
            ELSE Ok(ShiftOf(document[1].id, document[1].data), calls)

getShiftById(ownerUserId, shiftId) ==
    LET document == getDocumentById(shifts, shiftId)
        calls == <<Call("getDocumentById", "shifts", shiftId)>>
    IN IF document = None THEN Throw(NotFound("Shift", shiftId), calls)
       ELSE IF document[1].data.ownerUserId # ownerUserId
            THEN Throw(NotFound("Shift", shiftId), calls)
            ELSE Ok(ShiftOf(document[1].id, document[1].data), calls)

\* A creation that files every shift under the default owner
createShift_defaultOwner(ownerUserId, input, createdId) ==
    LET payload == [ownerUserId |-> "demo-user",
                    employerId |-> input.employerId,
                    startTime |-> NewDate(input.startTime),
                    endTime |-> NewDate(input.endTime),
                    tips |-> input.tips,
                    createdAt |-> Date(now),
                    updatedAt |-> Date(now)]
    IN [out |-> Ok(("id" :> createdId) @@ payload,
                   <<Call("createDocument", "shifts", createdId)>>),
        store |-> createDocument(shifts, createdId, payload)]

createShift(ownerUserId, input, createdId) ==
    LET payload == [ownerUserId |-> ownerUserId,
                    employerId |-> input.employerId,
                    startTime |-> NewDate(input.startTime),
                    endTime |-> NewDate(input.endTime),
                    tips |-> input.tips,
                    createdAt |-> Date(now),
                    updatedAt |-> Date(now)]
    IN [out |-> Ok(("id" :> createdId) @@ payload,
                   <<Call("createDocument", "shifts", createdId)>>),
        store |-> createDocument(shifts, createdId, payload)]

\* The update payload that always carries tips
ShiftUpdateData_alwaysTips(input) ==
    LET supplied == {f \in {"employerId", "startTime", "endTime"} : input[f] # None}
    IN [f \in supplied \cup {"tips", "updatedAt"} |->
          CASE f = "employerId" -> input.employerId[1]
            [] f = "startTime" -> NewDate(input.startTime[1])
            [] f = "endTime" -> NewDate(input.endTime[1])
            [] f = "tips" -> IF input.tips = None THEN None ELSE input.tips[1]
            [] f = "updatedAt" -> Date(now)]

\* The fields of the update payload: those the input supplies, and updatedAt
\* The update data made of every field the body carries
ShiftUpdateData_spreadsInput(input) ==
    LET supplied == {f \in DOMAIN input : input[f] # None}
    IN [f \in supplied \cup {"updatedAt"} |->
          CASE f = "startTime" -> NewDate(input.startTime[1])
            [] f = "endTime" -> NewDate(input.endTime[1])
            [] f = "updatedAt" -> Date(now)
            [] OTHER -> input[f][1]]

ShiftUpdateData(input) ==
    LET supplied == {f \in {"employerId", "startTime", "endTime", "tips"} :
                        input[f] # None}
    IN [f \in supplied \cup {"updatedAt"} |->
          CASE f = "employerId" -> input.employerId[1]
            [] f = "startTime" -> NewDate(input.startTime[1])
            [] f = "endTime" -> NewDate(input.endTime[1])
            [] f = "tips" -> input.tips[1]
            [] f = "updatedAt" -> Date(now)]

\* { ...existing, ...updateData }
Spread(existing, updateData) ==
    [f \in (DOMAIN existing) \cup (DOMAIN updateData) |->
        IF f \in DOMAIN updateData THEN updateData[f] ELSE existing[f]]

\* updateShift up to its first await: the shift is read and its owner checked
updateShiftRead(ownerUserId, shiftId) == getShiftById(ownerUserId, shiftId)

\* A rest of updateShift that refuses to write over a record changed since the read
updateShiftWrite_versionCheck(existing, input) ==
    IF ShiftOf(existing.value.id, shifts[existing.value.id]) # existing.value
    THEN [out |-> Throw(<<"Shift", "with id", existing.value.id, "was modified">>,
                        existing.calls),
          store |-> shifts]
    ELSE LET updateData == ShiftUpdateData(input)
         IN [out |-> Ok(Spread(existing.value, updateData),
                        Append(existing.calls,
                               Call("updateDocument", "shifts", existing.value.id))),
             store |-> updateDocument(shifts, existing.value.id, updateData)]

\* updateShift after its first await: the changes are built from the input,
\* written, and returned merged into the snapshot read before
\* A write through set(data, { merge: true }), which creates the document
\* when there is none
updateShiftWrite_setMerge(existing, input) ==
    LET updateData == ShiftUpdateData(input)
        id == existing.value.id
    IN [out |-> Ok(Spread(existing.value, updateData),
                   Append(existing.calls, Call("updateDocument", "shifts", id))),
        store |-> IF id \in DOMAIN shifts THEN updateDocument(shifts, id, updateData)
                  ELSE createDocument(shifts, id, updateData)]

\* DocumentReference.update rejects when the document does not exist
NoDocumentToUpdate(collection, id) == <<"NOT_FOUND: No document to update", collection, id>>

updateShiftWrite(existing, input) ==
    LET updateData == ShiftUpdateData(input)
        id == existing.value.id
        calls == Append(existing.calls, Call("updateDocument", "shifts", id))
    IN IF getDocumentById(shifts, id) = None
       THEN [out |-> Throw(NoDocumentToUpdate("shifts", id), calls), store |-> shifts]
       ELSE [out |-> Ok(Spread(existing.value, updateData), calls),
             store |-> updateDocument(shifts, id, updateData)]

\* The update that writes before it checks the owner
updateShift_writeFirst(ownerUserId, shiftId, input) ==
    LET existing == getShiftById(ownerUserId, shiftId)
        updateData == ShiftUpdateData(input)
        written == IF shiftId \in DOMAIN shifts
                   THEN updateDocument(shifts, shiftId, updateData) ELSE shifts
        calls == Append(existing.calls, Call("updateDocument", "shifts", shiftId))
    IN IF ~existing.ok
       THEN [out |-> Throw(existing.error[1], calls), store |-> written]
       ELSE [out |-> Ok(Spread(existing.value, updateData), calls), store |-> written]

updateShift(ownerUserId, shiftId, input) ==
    LET existing == getShiftById(ownerUserId, shiftId)
    IN IF ~existing.ok THEN [out |-> existing, store |-> shifts]
       ELSE LET updateData == ShiftUpdateData(input)
            IN [out |-> Ok(Spread(existing.value, updateData),
                           Append(existing.calls,
                                  Call("updateDocument", "shifts", existing.value.id))),
                store |-> updateDocument(shifts, existing.value.id, updateData)]

\* The deletion that deletes before it checks the owner
deleteShift_deleteFirst(ownerUserId, shiftId) ==
    LET existing == getShiftById(ownerUserId, shiftId)
        calls == Append(existing.calls, Call("deleteDocument", "shifts", shiftId))
    IN IF ~existing.ok
       THEN [out |-> Throw(existing.error[1], calls), store |-> deleteDocument(shifts, shiftId)]
       ELSE [out |-> Ok(None, calls), store |-> deleteDocument(shifts, shiftId)]

\* A delete that verifies the owner and leaves the document in place
deleteShift_ownershipOnly(ownerUserId, shiftId) ==
    LET existing == getShiftById(ownerUserId, shiftId)
    IN IF ~existing.ok THEN [out |-> existing, store |-> shifts]
       ELSE [out |-> Ok(None, existing.calls), store |-> shifts]

deleteShift(ownerUserId, shiftId) ==
    LET existing == getShiftById(ownerUserId, shiftId)
    IN IF ~existing.ok THEN [out |-> existing, store |-> shifts]
       ELSE [out |-> Ok(None, Append(existing.calls,
                                     Call("deleteDocument", "shifts", existing.value.id))),
             store |-> deleteDocument(shifts, existing.value.id)]

---------------------------------------------------------------------------
(* employerService *)

EmployerOf(id, data) ==
    [id |-> id,
     ownerUserId |-> data.ownerUserId,
     name |-> data.name,
     hourlyRate |-> data.hourlyRate,
     createdAt |-> toDateFromUnknown(data.createdAt),
     updatedAt |-> toDateFromUnknown(data.updatedAt)]

createEmployer(ownerUserId, input, id) ==
    LET payload == [ownerUserId |-> ownerUserId,
                    name |-> input.name,
                    hourlyRate |-> input.hourlyRate,
                    createdAt |-> Date(now),
                    updatedAt |-> Date(now)]
    IN [out |-> Ok(("id" :> id) @@ payload,
                   <<Call("createDocument", "employers", id)>>),
        store |-> createDocument(employers, id, payload)]

getEmployerById(ownerUserId, employerId) ==
    LET doc == getDocumentById(employers, employerId)
        calls == <<Call("getDocumentById", "employers", employerId)>>
    IN IF doc = None THEN Throw(NotFound("Employer", employerId), calls)
       ELSE IF doc[1].data.ownerUserId # ownerUserId
            THEN Throw(NotFound("Employer", employerId), calls)
            ELSE Ok(EmployerOf(doc[1].id, doc[1].data), calls)

EmployerUpdateData(input) ==
    LET supplied == {f \in {"name", "hourlyRate"} : input[f] # None}
    IN [f \in supplied \cup {"updatedAt"} |->
          CASE f = "name" -> input.name[1]
            [] f = "hourlyRate" -> input.hourlyRate[1]
            [] f = "updatedAt" -> Date(now)]

updateEmployer(ownerUserId, employerId, input) ==
    LET existing == getEmployerById(ownerUserId, employerId)
    IN IF ~existing.ok THEN [out |-> existing, store |-> employers]
       ELSE LET updateData == EmployerUpdateData(input)
            IN [out |-> Ok(Spread(existing.value, updateData),
                           Append(existing.calls,
                                  Call("updateDocument", "employers", existing.value.id))),
                store |-> updateDocument(employers, existing.value.id, updateData)]

deleteEmployer(ownerUserId, employerId) ==
    LET existing == getEmployerById(ownerUserId, employerId)
    IN IF ~existing.ok THEN [out |-> existing, store |-> employers]
       ELSE [out |-> Ok(None, Append(existing.calls,
                                     Call("deleteDocument", "employers", existing.value.id))),
             store |-> deleteDocument(employers, existing.value.id)]

---------------------------------------------------------------------------
(* adjustmentService *)

AdjustmentOf(id, data) ==
    [id |-> id,
     ownerUserId |-> data.ownerUserId,
     date |-> toDateFromUnknown(data.date),
     amount |-> data.amount,
     employerId |-> data.employerId,
     shiftId |-> data.shiftId,
     note |-> data.note,
     createdAt |-> toDateFromUnknown(data.createdAt),
     updatedAt |-> toDateFromUnknown(data.updatedAt)]

\* A listing in which either filter suffices
getAllAdjustments_eitherFilter(ownerUserId, options) ==
    LET docs == getDocuments(adjustments)
        all == [i \in 1..Len(docs) |-> AdjustmentOf(docs[i].id, docs[i].data)]
        KeepOwner(a) == a.ownerUserId = ownerUserId
        KeepEither(a) ==
            \/ ~Truthy(options.employerId) /\ ~Truthy(options.shiftId)
            \/ Truthy(options.employerId) /\ a.employerId = options.employerId
            \/ Truthy(options.shiftId) /\ a.shiftId = options.shiftId
    IN Ok(SelectSeq(SelectSeq(all, KeepOwner), KeepEither),
          <<Call("getDocuments", "adjustments", 0)>>)

\* a.employerId === options.employerId: an adjustment without the field
\* equals no string
getAllAdjustments(ownerUserId, options) ==
    LET docs == getDocuments(adjustments)
        all == [i \in 1..Len(docs) |-> AdjustmentOf(docs[i].id, docs[i].data)]
        KeepOwner(a) == a.ownerUserId = ownerUserId
        KeepEmployer(a) ==
            IF Truthy(options.employerId) THEN a.employerId = options.employerId ELSE TRUE
        KeepShift(a) ==
            IF Truthy(options.shiftId) THEN a.shiftId = options.shiftId ELSE TRUE
    IN Ok(SelectSeq(SelectSeq(SelectSeq(all, KeepOwner), KeepEmployer), KeepShift),
          <<Call("getDocuments", "adjustments", 0)>>)

createAdjustment(ownerUserId, input, createdId) ==
    LET payload == [ownerUserId |-> ownerUserId,
                    date |-> NewDate(input.date),
                    amount |-> input.amount,
                    employerId |-> input.employerId,
                    shiftId |-> input.shiftId,
                    note |-> input.note,
                    createdAt |-> Date(now),
                    updatedAt |-> Date(now)]
    IN [out |-> Ok(("id" :> createdId) @@ payload,
                   <<Call("createDocument", "adjustments", createdId)>>),
        store |-> createDocument(adjustments, createdId, payload)]

\* The lookup that hands an adjustment to any caller
getAdjustmentById_anyOwner(ownerUserId, adjustmentId) ==
    LET document == getDocumentById(adjustments, adjustmentId)
        calls == <<Call("getDocumentById", "adjustments", adjustmentId)>>
    IN IF document = None THEN Throw(NotFound("Adjustment", adjustmentId), calls)
       ELSE Ok(AdjustmentOf(document[1].id, document[1].data), calls)

getAdjustmentById(ownerUserId, adjustmentId) ==
    LET document == getDocumentById(adjustments, adjustmentId)
        calls == <<Call("getDocumentById", "adjustments", adjustmentId)>>
    IN IF document = None THEN Throw(NotFound("Adjustment", adjustmentId), calls)
       ELSE IF document[1].data.ownerUserId # ownerUserId
            THEN Throw(NotFound("Adjustment", adjustmentId), calls)
            ELSE Ok(AdjustmentOf(document[1].id, document[1].data), calls)

AdjustmentUpdateData(input) ==
    LET supplied == {f \in {"date", "amount", "employerId", "shiftId", "note"} :
                        input[f] # None}
    IN [f \in supplied \cup {"updatedAt"} |->
          CASE f = "date" -> NewDate(input.date[1])
            [] f = "amount" -> input.amount[1]
            [] f = "employerId" -> input.employerId[1]
            [] f = "shiftId" -> input.shiftId[1]
            [] f = "note" -> input.note[1]
            [] f = "updatedAt" -> Date(now)]

updateAdjustment(ownerUserId, adjustmentId, input) ==
    LET existing == getAdjustmentById(ownerUserId, adjustmentId)
    IN IF ~existing.ok THEN [out |-> existing, store |-> adjustments]
       ELSE LET updateData == AdjustmentUpdateData(input)
            IN [out |-> Ok(Spread(existing.value, updateData),
                           Append(existing.calls,
                                  Call("updateDocument", "adjustments", existing.value.id))),
                store |-> updateDocument(adjustments, existing.value.id, updateData)]

deleteAdjustment(ownerUserId, adjustmentId) ==
    LET existing == getAdjustmentById(ownerUserId, adjustmentId)
    IN IF ~existing.ok THEN [out |-> existing, store |-> adjustments]
       ELSE [out |-> Ok(None, Append(existing.calls,
                                     Call("deleteDocument", "adjustments", existing.value.id))),
             store |-> deleteDocument(adjustments, existing.value.id)]

---------------------------------------------------------------------------
(* The record of the request handled last.  uid and status are filled by   *)
(* the HTTP layer; a direct call of a service function leaves them empty.  *)

NoOptions == [employerId |-> None, includeTotals |-> FALSE]

Handled(op, uid, owner, id, options, out, status) ==
    [op |-> op, uid |-> uid, owner |-> owner, id |-> id, options |-> options,
     ok |-> out.ok, error |-> out.error, value |-> out.value, calls |-> out.calls,
     status |-> status]

Called(op, owner, id, options, out) ==
    Handled(op, None, Some(owner), id, options, out, 0)

\* No getAllShifts call is in progress
NotListing ==
    [pc |-> "idle", owner |-> None, options |-> NoOptions, userShifts |-> <<>>,
     i |-> 0, employerRateCache |-> <<>>, shiftsWithComputed |-> <<>>, calls |-> <<>>]

Init ==
    /\ shifts = <<>>
    /\ employers = <<>>
    /\ adjustments = <<>>
    /\ now = FirstReading
    /\ seen = <<>>
    /\ inflight = [task \in Tasks |-> Idle]
    /\ listing = NotListing
    /\ last = Handled("none", None, None, 0, NoOptions, Ok(None, <<>>), 0)

\* Time passes.
Tick ==
    /\ \E t \in ClockReadings : t > now /\ now' = t
    /\ UNCHANGED <<shifts, employers, adjustments, last, seen, inflight, listing>>

---------------------------------------------------------------------------
(* Calls of the shift service *)

\* The request bodies that pass validation
CreateShiftInputs ==
    [employerId : {1}, startTime : {"2025-01-01T09:00:00.000Z"},
     endTime : {"2025-01-01T17:00:00.000Z"}, tips : {None, Some(10)}]

\* A field of a partial update is absent or carries a value
UpdateShiftInputs ==
    [employerId : {None, Some(2)},
     startTime : {None},
     endTime : {None, Some("2025-01-01T09:00:00.000Z")},
     tips : {None, Some(Some(10))}]

ListOptions ==
    [employerId : {None} \cup {Some(e) : e \in EmployerRefs}, includeTotals : BOOLEAN]

GetAllShiftsCall(owner, options) ==
    /\ last' = Called("getAllShifts", owner, 0, options, getAllShifts(owner, options))
    /\ UNCHANGED <<shifts, employers, adjustments, now, seen, inflight, listing>>

GetShiftByIdCall(owner, id) ==
    /\ last' = Called("getShiftById", owner, id, NoOptions, getShiftById(owner, id))
    /\ UNCHANGED <<shifts, employers, adjustments, now, seen, inflight, listing>>

CreateShiftCall(owner, input, id) ==
    LET done == createShift(owner, input, id)
    IN /\ id \notin DOMAIN shifts
       /\ shifts' = done.store
       /\ last' = Called("createShift", owner, id, NoOptions, done.out)
       /\ UNCHANGED <<employers, adjustments, now, seen, inflight, listing>>

UpdateShiftCall(owner, id, input) ==
    LET done == updateShift(owner, id, input)
    IN /\ shifts' = done.store
       /\ last' = Called("updateShift", owner, id, NoOptions, done.out)
       /\ UNCHANGED <<employers, adjustments, now, seen, inflight, listing>>

DeleteShiftCall(owner, id) ==
    LET done == deleteShift(owner, id)
    IN /\ shifts' = done.store
       /\ last' = Called("deleteShift", owner, id, NoOptions, done.out)
       /\ UNCHANGED <<employers, adjustments, now, seen, inflight, listing>>

Next ==
    \/ Tick
    \/ \E owner \in Owners, id \in ShiftRefs : GetShiftByIdCall(owner, id)
    \/ \E owner \in Owners, input \in CreateShiftInputs, id \in ShiftIds :
          CreateShiftCall(owner, input, id)
    \/ \E owner \in Owners, id \in ShiftRefs, input \in UpdateShiftInputs :
          UpdateShiftCall(owner, id, input)
    \/ \E owner \in Owners, id \in ShiftRefs : DeleteShiftCall(owner, id)

\* The shift service called one function at a time, from an empty store
Spec == Init /\ [][Next]_vars

\* The shift `id` is missing or belongs to another owner than `owner`
NotOwnShift(owner, id) == id \notin DOMAIN shifts \/ shifts[id].ownerUserId # owner

\* A log of store calls holds a call of `fn`
Calls(calls, fn) == \E i \in 1..Len(calls) : calls[i].fn = fn

\* C2: getShiftById(A, id) fails with 'Shift with id <id> not found' both when
\* id is missing and when it belongs to another owner; the two outcomes are
\* the same.
C2_SameNotFound ==
    (last.op = "getShiftById" /\ NotOwnShift(last.owner[1], last.id)) =>
        /\ ~last.ok
        /\ last.error = Some(NotFound("Shift", last.id))
        /\ last.value = None
        /\ last.calls = <<Call("getDocumentById", "shifts", last.id)>>

\* A lookup that failed on a stored shift of another owner
C2_Witness ==
    /\ last.op = "getShiftById"
    /\ last.id \in DOMAIN shifts
    /\ shifts[last.id].ownerUserId # last.owner[1]
    /\ last.error = Some(NotFound("Shift", last.id))

\* C3: deleteShift(A, id) on a shift that is missing or belongs to another
\* owner fails with the not-found error, calls deleteDocument not at all and
\* leaves the store as it was.
C3_DeleteChecksOwner ==
    [][(/\ last'.op = "deleteShift"
        /\ NotOwnShift(last'.owner[1], last'.id)
        /\ DeleteShiftCall(last'.owner[1], last'.id)) =>
            /\ ~last'.ok
            /\ last'.error = Some(NotFound("Shift", last'.id))
            /\ ~Calls(last'.calls, "deleteDocument")
            /\ shifts' = shifts]_vars

\* A deletion that failed on a stored shift of another owner
C3_Witness ==
    /\ last.op = "deleteShift"
    /\ ~last.ok
    /\ last.id \in DOMAIN shifts
    /\ shifts[last.id].ownerUserId # last.owner[1]

\* C4: updateShift(A, id, input) on a shift that is missing or belongs to
\* another owner fails without a call of updateDocument and without a change
\* to any stored record.
C4_UpdateFailsFast ==
    [][(/\ last'.op = "updateShift"
        /\ NotOwnShift(last'.owner[1], last'.id)
        /\ \E input \in UpdateShiftInputs :
              UpdateShiftCall(last'.owner[1], last'.id, input)) =>
            /\ ~last'.ok
            /\ last'.error = Some(NotFound("Shift", last'.id))
            /\ ~Calls(last'.calls, "updateDocument")
            /\ shifts' = shifts]_vars

\* An update that failed on a stored shift of another owner
C4_Witness ==
    /\ last.op = "updateShift"
    /\ ~last.ok
    /\ last.id \in DOMAIN shifts
    /\ shifts[last.id].ownerUserId # last.owner[1]

\* The fields a partial update may carry
UpdatableShiftFields == {"employerId", "startTime", "endTime", "tips"}

\* C9: updateShift(owner, id, partial) on the owner's shift changes, in the
\* stored document and in the returned entity, only the fields that partial
\* supplies and updatedAt; id, ownerUserId, createdAt and the fields not
\* supplied keep their values, and no other document changes.
C9_UpdateFrame ==
    [][(last'.op = "updateShift" /\ ~NotOwnShift(last'.owner[1], last'.id)) =>
          \A input \in UpdateShiftInputs :
              UpdateShiftCall(last'.owner[1], last'.id, input) =>
                  LET id == last'.id
                      entity == ShiftOf(id, shifts[id])
                  IN /\ last'.ok
                     /\ last'.value.id = id
                     /\ DOMAIN shifts' = DOMAIN shifts
                     /\ \A other \in DOMAIN shifts \ {id} : shifts'[other] = shifts[other]
                     /\ DOMAIN shifts'[id] = DOMAIN shifts[id]
                     /\ \A f \in DOMAIN shifts[id] \ {"updatedAt"} :
                           (f \notin UpdatableShiftFields \/ input[f] = None) =>
                               /\ shifts'[id][f] = shifts[id][f]
                               /\ last'.value[f] = entity[f]]_vars

\* An update of the owner's shift, made after its creation
C9_Witness ==
    /\ last.op = "updateShift"
    /\ last.ok
    /\ last.id \in DOMAIN shifts
    /\ shifts[last.id].updatedAt.t > shifts[last.id].createdAt.t
    /\ last.value.createdAt = Date(shifts[last.id].createdAt.t)

---------------------------------------------------------------------------
(* Listings: shifts and employers are created, and the shifts are listed *)

ListedIds == 1..MaxListed

\* Shifts from nine to five, for an employer in the store or a missing one
ListedShiftInputs ==
    [employerId : EmployerRefs, startTime : {"2025-01-01T09:00:00.000Z"},
     endTime : {"2025-01-01T17:00:00.000Z"}, tips : {Some(10)}]

CreateEmployerInputs == [name : {"Cafe"}, hourlyRate : {Number(1500)}]

CreateEmployerCall(owner, input, id) ==
    LET done == createEmployer(owner, input, id)
    IN /\ id \notin DOMAIN employers
       /\ employers' = done.store
       /\ last' = Called("createEmployer", owner, id, NoOptions, done.out)
       /\ UNCHANGED <<shifts, adjustments, now, seen, inflight, listing>>

ListNext ==
    \/ \E owner \in Owners, input \in ListedShiftInputs, id \in ListedIds :
          CreateShiftCall(owner, input, id)
    \/ \E owner \in Owners, input \in CreateEmployerInputs, id \in EmployerIds :
          CreateEmployerCall(owner, input, id)
    \/ \E owner \in Owners, options \in ListOptions : GetAllShiftsCall(owner, options)

ListSpec == Init /\ [][ListNext]_vars

\* The last request is a listing by `owner`
Listed == last.op = "getAllShifts"

\* C1: every item that getAllShifts(A, options) returns has ownerUserId = A,
\* whatever the store holds for other owners.
C1_OwnerIsolation ==
    Listed =>
        \A i \in 1..Len(last.value.items) :
            last.value.items[i].ownerUserId = last.owner[1]

\* A listing that returned an item while the store holds another owner's shift
C1_Witness ==
    /\ Listed
    /\ Len(last.value.items) > 0
    /\ \E id \in DOMAIN shifts : shifts[id].ownerUserId # last.owner[1]

\* The items of a sequence that belong to employer E
OfEmployer(items, E) ==
    LET Keep(item) == item.employerId = E IN SelectSeq(items, Keep)

\* C8: the items of getAllShifts(owner, {employerId: E}) are the items of
\* getAllShifts(owner) of employer E, in the same order and with the same
\* hours and pay.
C8_FilterIsSubset ==
    (Listed /\ last.options.employerId # None) =>
        last.value.items =
            OfEmployer(getAllShifts(last.owner[1], NoOptions).value.items,
                       last.options.employerId[1])

\* A filtered listing that kept one of the owner's shifts and dropped another
C8_Witness ==
    /\ Listed
    /\ last.options.employerId # None
    /\ Len(last.value.items) > 0
    /\ Len(getAllShifts(last.owner[1], NoOptions).value.items) > Len(last.value.items)

\* The number of fetches of employer e in a log of store calls
RECURSIVE EmployerFetches(_, _)
EmployerFetches(calls, e) ==
    IF calls = <<>> THEN 0
    ELSE (IF Head(calls) = Call("getDocumentById", "employers", e) THEN 1 ELSE 0)
         + EmployerFetches(Tail(calls), e)

\* C10: one getAllShifts call fetches the employer document at most once per
\* employerId of the listed shifts, also when the rate resolves to 0.
C10_OneFetchPerEmployer ==
    Listed =>
        \A e \in EmployerRefs :
            EmployerFetches(last.calls, e)
                = IF \E i \in 1..Len(last.value.items) : last.value.items[i].employerId = e
                  THEN 1 ELSE 0

\* A listing of two shifts of one employer that is missing from the store
C10_Witness ==
    /\ Listed
    /\ \E i, j \in 1..Len(last.value.items) :
          /\ i # j
          /\ last.value.items[i].employerId = last.value.items[j].employerId
          /\ last.value.items[i].employerId \notin DOMAIN employers
          /\ EmployerFetches(last.calls, last.value.items[i].employerId) = 1

---------------------------------------------------------------------------
(* Calls of the employer service and of the adjustment service *)

UpdateEmployerInputs ==
    [name : {None, Some("Diner")}, hourlyRate : {None, Some(Number(2000))}]

CreateAdjustmentInputs ==
    [date : {"2025-01-01T09:00:00.000Z"}, amount : {500}, employerId : {Some(1)},
     shiftId : {None}, note : {None}]

UpdateAdjustmentInputs ==
    [date : {None}, amount : {None, Some(700)}, employerId : {None}, shiftId : {None},
     note : {None}]

GetEmployerByIdCall(owner, id) ==
    /\ last' = Called("getEmployerById", owner, id, NoOptions, getEmployerById(owner, id))
    /\ UNCHANGED <<shifts, employers, adjustments, now, seen, inflight, listing>>

UpdateEmployerCall(owner, id, input) ==
    LET done == updateEmployer(owner, id, input)
    IN /\ employers' = done.store
       /\ last' = Called("updateEmployer", owner, id, NoOptions, done.out)
       /\ UNCHANGED <<shifts, adjustments, now, seen, inflight, listing>>

\* A deletion that takes the employer's shifts and adjustments along
DeleteEmployerCall_cascade(owner, id) ==
    LET done == deleteEmployer(owner, id)
    IN /\ employers' = done.store
       /\ shifts' = IF done.out.ok
                    THEN [s \in {k \in DOMAIN shifts : shifts[k].employerId # id} |-> shifts[s]]
                    ELSE shifts
       /\ adjustments' = IF done.out.ok
                         THEN [a \in {k \in DOMAIN adjustments :
                                        adjustments[k].employerId # Some(id)} |-> adjustments[a]]
                         ELSE adjustments
       /\ last' = Called("deleteEmployer", owner, id, NoOptions, done.out)
       /\ UNCHANGED <<now, seen, inflight, listing>>

DeleteEmployerCall(owner, id) ==
    LET done == deleteEmployer(owner, id)
    IN /\ employers' = done.store
       /\ last' = Called("deleteEmployer", owner, id, NoOptions, done.out)
       /\ UNCHANGED <<shifts, adjustments, now, seen, inflight, listing>>

CreateAdjustmentCall(owner, input, id) ==
    LET done == createAdjustment(owner, input, id)
    IN /\ id \notin DOMAIN adjustments
       /\ adjustments' = done.store
       /\ last' = Called("createAdjustment", owner, id, NoOptions, done.out)
       /\ UNCHANGED <<shifts, employers, now, seen, inflight, listing>>

GetAdjustmentByIdCall(owner, id) ==
    /\ last' = Called("getAdjustmentById", owner, id, NoOptions, getAdjustmentById(owner, id))
    /\ UNCHANGED <<shifts, employers, adjustments, now, seen, inflight, listing>>

UpdateAdjustmentCall(owner, id, input) ==
    LET done == updateAdjustment(owner, id, input)
    IN /\ adjustments' = done.store
       /\ last' = Called("updateAdjustment", owner, id, NoOptions, done.out)
       /\ UNCHANGED <<shifts, employers, now, seen, inflight, listing>>

DeleteAdjustmentCall(owner, id) ==
    LET done == deleteAdjustment(owner, id)
    IN /\ adjustments' = done.store
       /\ last' = Called("deleteAdjustment", owner, id, NoOptions, done.out)
       /\ UNCHANGED <<shifts, employers, now, seen, inflight, listing>>

OwnerNext ==
    \/ \E owner \in Owners, input \in CreateEmployerInputs, id \in EmployerIds :
          CreateEmployerCall(owner, input, id)
    \/ \E owner \in Owners, id \in EmployerRefs : GetEmployerByIdCall(owner, id)
    \/ \E owner \in Owners, id \in EmployerRefs, input \in UpdateEmployerInputs :
          UpdateEmployerCall(owner, id, input)
    \/ \E owner \in Owners, id \in EmployerRefs : DeleteEmployerCall(owner, id)
    \/ \E owner \in Owners, input \in CreateAdjustmentInputs, id \in AdjustmentIds :
          CreateAdjustmentCall(owner, input, id)
    \/ \E owner \in Owners, id \in AdjustmentRefs : GetAdjustmentByIdCall(owner, id)
    \/ \E owner \in Owners, id \in AdjustmentRefs, input \in UpdateAdjustmentInputs :
          UpdateAdjustmentCall(owner, id, input)
    \/ \E owner \in Owners, id \in AdjustmentRefs : DeleteAdjustmentCall(owner, id)

\* The employer and adjustment services called one function at a time
OwnerSpec == Init /\ [][OwnerNext]_vars

\* The document `id` of a collection is missing or belongs to another owner
NotOwn(collection, owner, id) ==
    id \notin DOMAIN collection \/ collection[id].ownerUserId # owner

\* The outcome of a request that found no record of the caller
FailedNotFound(request, entityType) ==
    /\ ~request.ok
    /\ request.error = Some(NotFound(entityType, request.id))
    /\ request.calls = <<Call("getDocumentById",
                              IF entityType = "Employer" THEN "employers" ELSE "adjustments",
                              request.id)>>

\* C5: for employers and adjustments, get-by-id, update and delete by a caller
\* who does not own the record fail with '<EntityType> with id <id> not found',
\* as for a missing id, call neither updateDocument nor deleteDocument and
\* leave the store as it was.
C5_OwnerOnly ==
    /\ [](last.op = "getEmployerById" /\ NotOwn(employers, last.owner[1], last.id)
            => FailedNotFound(last, "Employer"))
    /\ [](last.op = "getAdjustmentById" /\ NotOwn(adjustments, last.owner[1], last.id)
            => FailedNotFound(last, "Adjustment"))
    /\ [][(/\ last'.op \in {"updateEmployer", "deleteEmployer"}
            /\ NotOwn(employers, last'.owner[1], last'.id)
            /\ \/ DeleteEmployerCall(last'.owner[1], last'.id)
               \/ \E input \in UpdateEmployerInputs :
                     UpdateEmployerCall(last'.owner[1], last'.id, input)) =>
                /\ FailedNotFound(last', "Employer")
                /\ employers' = employers]_vars
    /\ [][(/\ last'.op \in {"updateAdjustment", "deleteAdjustment"}
            /\ NotOwn(adjustments, last'.owner[1], last'.id)
            /\ \/ DeleteAdjustmentCall(last'.owner[1], last'.id)
               \/ \E input \in UpdateAdjustmentInputs :
                     UpdateAdjustmentCall(last'.owner[1], last'.id, input)) =>
                /\ FailedNotFound(last', "Adjustment")
                /\ adjustments' = adjustments]_vars

\* An update of another owner's adjustment that failed, with another owner's
\* employer in the store as well
C5_Witness ==
    /\ last.op = "updateAdjustment"
    /\ ~last.ok
    /\ last.id \in DOMAIN adjustments
    /\ adjustments[last.id].ownerUserId # last.owner[1]
    /\ \E e \in DOMAIN employers : employers[e].ownerUserId # last.owner[1]

---------------------------------------------------------------------------
(* The HTTP layer of the shift routes: authenticate, authorize, the shift  *)
(* controller and the error handler.  A request carries an Authorization   *)
(* header, split at the blank, and an x-demo-user-id header.               *)

AuthorizationHeaders ==
    {None, Some(<<"Basic", "tokenB">>), Some(<<"Bearer", "tokenB">>),
     Some(<<"bearer", "tokenC">>), Some(<<"Bearer", "tokenGuest">>),
     Some(<<"Bearer", "forged">>)}

DemoUserHeaders == {None, Some("B")}

Requests == [authorization : AuthorizationHeaders, demoUserId : DemoUserHeaders]

\* A reading of the header that takes the last part as the token, whatever
\* the scheme
getBearerToken_anyScheme(request) ==
    LET header == request.authorization
    IN IF header = None THEN None
       ELSE LET parts == header[1]
            IN IF Len(parts) # 2 THEN None
               ELSE IF parts[2] = "" THEN None
               ELSE Some(parts[2])

\* The token of a header 'Bearer <token>', the scheme in any case
getBearerToken(request) ==
    LET header == request.authorization
    IN IF header = None THEN None
       ELSE LET parts == header[1]
            IN IF Len(parts) # 2 THEN None
               ELSE IF parts[1] \notin {"Bearer", "bearer", "BEARER"} THEN None
               ELSE IF parts[2] = "" THEN None
               ELSE Some(parts[2])

\* auth.verifyIdToken: the decoded token, or a rejection
verifyIdToken(token) ==
    CASE token = "tokenB" -> Some([uid |-> "B", roles |-> None])
      [] token = "tokenC" -> Some([uid |-> "C", roles |-> Some({"user"})])
      [] token = "tokenGuest" -> Some([uid |-> "G", roles |-> Some({"guest"})])
      [] OTHER -> None

NoLocals == [uid |-> None, roles |-> None]

authenticate(request) ==
    LET token == getBearerToken(request)
    IN IF token = None
       THEN [next |-> FALSE, status |-> HTTP_STATUS.UNAUTHORIZED, locals |-> NoLocals]
       ELSE LET decoded == verifyIdToken(token[1])
            IN IF decoded = None
               THEN [next |-> FALSE, status |-> HTTP_STATUS.UNAUTHORIZED, locals |-> NoLocals]
               ELSE [next |-> TRUE, status |-> 0,
                     locals |-> [uid |-> Some(decoded[1].uid), roles |-> decoded[1].roles]]

\* A role check that looks at the roles before the uid
authorize_rolesFirst(hasRole, locals) ==
    LET effectiveRoles == IF locals.roles # None THEN locals.roles[1] ELSE {"user"}
        isAllowed == hasRole = {} \/ hasRole \cap effectiveRoles # {}
    IN IF isAllowed THEN [next |-> TRUE, status |-> 0]
       ELSE IF locals.uid = None
            THEN [next |-> FALSE, status |-> HTTP_STATUS.UNAUTHORIZED]
            ELSE [next |-> FALSE, status |-> HTTP_STATUS.FORBIDDEN]

authorize(hasRole, locals) ==
    IF locals.uid = None
    THEN [next |-> FALSE, status |-> HTTP_STATUS.UNAUTHORIZED]
    ELSE LET effectiveRoles == IF locals.roles # None THEN locals.roles[1] ELSE {"user"}
             isAllowed == hasRole = {} \/ hasRole \cap effectiveRoles # {}
         IN IF ~isAllowed
            THEN [next |-> FALSE, status |-> HTTP_STATUS.FORBIDDEN]
            ELSE [next |-> TRUE, status |-> 0]

\* router.get(path, authenticate, ..., controller)
ReadRoute(request) == authenticate(request)

\* router.put(path, authenticate, authorize({ hasRole: ["user"] }), ..., controller)
WriteRoute(request) ==
    LET authenticated == authenticate(request)
    IN IF ~authenticated.next THEN authenticated
       ELSE LET authorized == authorize({"user"}, authenticated.locals)
            IN [next |-> authorized.next, status |-> authorized.status,
                locals |-> authenticated.locals]

\* (request.header("x-demo-user-id") as string) || "demo-user"
resolveOwnerUserId(request) ==
    IF request.demoUserId # None /\ request.demoUserId[1] # ""
    THEN request.demoUserId[1] ELSE "demo-user"

\* The services throw `new Error(message)`
PlainError(message) == [class |-> "Error", message |-> message]

\* The status of the error response
errorHandler(err) ==
    IF err = None THEN HTTP_STATUS.INTERNAL_SERVER_ERROR
    ELSE IF err[1].class \in {"AppError", "AuthenticationError", "AuthorizationError"}
         THEN err[1].statusCode
         ELSE HTTP_STATUS.INTERNAL_SERVER_ERROR

\* The record of a request a middleware answered
Refused(op, id, route) ==
    Handled(op, route.locals.uid, None, id, NoOptions,
            [ok |-> FALSE, error |-> None, value |-> None, calls |-> <<>>], route.status)

\* The record of a request the controller answered: the status of success,
\* or the error handed to next() and answered by the error handler
Answered(op, route, owner, id, options, out, success) ==
    Handled(op, route.locals.uid, Some(owner), id, options, out,
            IF out.ok THEN success ELSE errorHandler(Some(PlainError(out.error[1]))))

\* Bodies and queries that pass validation
UpdateShiftBodies ==
    {input \in UpdateShiftInputs :
        /\ input.employerId = None
        /\ (input.endTime = None) # (input.tips = None)}

ListQueries == [employerId : {None, Some(1)}, includeTotals : {None, Some("true"), Some("false")}]

parseBooleanQuery(raw) == raw \in {Some("true"), Some("1")}

GetAllShiftsRequest(request, query) ==
    LET route == ReadRoute(request)
        ownerUserId == resolveOwnerUserId(request)
        options == [employerId |-> query.employerId,
                    includeTotals |-> parseBooleanQuery(query.includeTotals)]
    IN /\ last' = IF ~route.next THEN Refused("GET /shifts", 0, route)
                  ELSE Answered("GET /shifts", route, ownerUserId, 0, options,
                                getAllShifts(ownerUserId, options), HTTP_STATUS.OK)
       /\ UNCHANGED <<shifts, employers, adjustments, now, seen, inflight, listing>>

GetShiftByIdRequest(request, id) ==
    LET route == ReadRoute(request)
        ownerUserId == resolveOwnerUserId(request)
    IN /\ last' = IF ~route.next THEN Refused("GET /shifts/:id", id, route)
                  ELSE Answered("GET /shifts/:id", route, ownerUserId, id, NoOptions,
                                getShiftById(ownerUserId, id), HTTP_STATUS.OK)
       /\ UNCHANGED <<shifts, employers, adjustments, now, seen, inflight, listing>>

CreateShiftRequest(request, body, id) ==
    LET route == WriteRoute(request)
        ownerUserId == resolveOwnerUserId(request)
        done == createShift(ownerUserId, body, id)
    IN /\ id \notin DOMAIN shifts
       /\ shifts' = IF route.next THEN done.store ELSE shifts
       /\ last' = IF ~route.next THEN Refused("POST /shifts", 0, route)
                  ELSE Answered("POST /shifts", route, ownerUserId, id, NoOptions,
                                done.out, HTTP_STATUS.CREATED)
       /\ UNCHANGED <<employers, adjustments, now, seen, inflight, listing>>

UpdateShiftRequest(request, id, body) ==
    LET route == WriteRoute(request)
        ownerUserId == resolveOwnerUserId(request)
        done == updateShift(ownerUserId, id, body)
    IN /\ shifts' = IF route.next THEN done.store ELSE shifts
       /\ last' = IF ~route.next THEN Refused("PUT /shifts/:id", id, route)
                  ELSE Answered("PUT /shifts/:id", route, ownerUserId, id, NoOptions,
                                done.out, HTTP_STATUS.OK)
       /\ UNCHANGED <<employers, adjustments, now, seen, inflight, listing>>

DeleteShiftRequest(request, id) ==
    LET route == WriteRoute(request)
        ownerUserId == resolveOwnerUserId(request)
        done == deleteShift(ownerUserId, id)
    IN /\ shifts' = IF route.next THEN done.store ELSE shifts
       /\ last' = IF ~route.next THEN Refused("DELETE /shifts/:id", id, route)
                  ELSE Answered("DELETE /shifts/:id", route, ownerUserId, id, NoOptions,
                                done.out, HTTP_STATUS.OK)
       /\ UNCHANGED <<employers, adjustments, now, seen, inflight, listing>>

HttpNext ==
    \/ \E request \in Requests, query \in ListQueries : GetAllShiftsRequest(request, query)
    \/ \E request \in Requests, id \in ShiftRefs : GetShiftByIdRequest(request, id)
    \/ \E request \in Requests, body \in CreateShiftInputs, id \in ShiftIds :
          CreateShiftRequest(request, body, id)
    \/ \E request \in Requests, id \in ShiftRefs, body \in UpdateShiftBodies :
          UpdateShiftRequest(request, id, body)
    \/ \E request \in Requests, id \in ShiftRefs : DeleteShiftRequest(request, id)

\* Requests to the shift routes, one at a time, from an empty store
HttpSpec == Init /\ [][HttpNext]_vars

\* C6: when a request reaches the controller, the ownerUserId handed to the
\* service is the uid that authenticate took from the verified token.
C6_OwnerIsAuthenticatedUid ==
    last.owner # None => last.owner = last.uid

\* C7: a request for a shift that is missing or belongs to another user is
\* answered with HTTP 404.
C7_NotFoundIs404 ==
    (last.status # 0 /\ last.error = Some(NotFound("Shift", last.id)))
        => last.status = 404

---------------------------------------------------------------------------
(* Listings between which the rate of an employer changes *)

\* Updates that change the rate
RateUpdates ==
    {input \in UpdateEmployerInputs : input.name = None /\ input.hourlyRate # None}

\* The rates a listing resolved, added to those met by earlier listings
Seen(items) ==
    LET met == {items[i].employerId : i \in 1..Len(items)}
    IN [e \in met \cup DOMAIN seen |->
          IF e \in DOMAIN seen THEN seen[e] ELSE getEmployerHourlyRate(e)]

\* getAllShifts, with the rates it resolved kept for later comparison
WatchedGetAllShiftsCall(owner) ==
    LET out == getAllShifts(owner, NoOptions)
    IN /\ last' = Called("getAllShifts", owner, 0, NoOptions, out)
       /\ seen' = Seen(out.value.items)
       /\ UNCHANGED <<shifts, employers, adjustments, now, inflight, listing>>

RateNext ==
    \/ \E owner \in Owners, input \in CreateShiftInputs, id \in ShiftIds :
          CreateShiftCall(owner, input, id)
    \/ \E owner \in Owners, input \in CreateEmployerInputs, id \in EmployerIds :
          CreateEmployerCall(owner, input, id)
    \/ \E owner \in Owners, id \in EmployerIds, input \in RateUpdates :
          UpdateEmployerCall(owner, id, input)
    \/ \E owner \in Owners, id \in EmployerIds : DeleteEmployerCall(owner, id)
    \/ \E owner \in Owners : WatchedGetAllShiftsCall(owner)

RateSpec == Init /\ [][RateNext]_vars

\* The rate the store holds for an employer now
StoredRate(e) == IF e \in DOMAIN employers THEN employers[e].hourlyRate.n ELSE 0

\* C11: the rate cache does not outlive a getAllShifts call: every pay of a
\* listing is computed from the rate the store holds at the time of that
\* listing, also after updateEmployer or deleteEmployer changed the rate
\* that an earlier listing resolved.
C11_NoStaleRate ==
    Listed =>
        \A i \in 1..Len(last.value.items) :
            LET item == last.value.items[i]
            IN item.pay = computeHoursAndPay(item, StoredRate(item.employerId)).pay

\* A listing of a shift whose employer had another rate in an earlier listing
C11_Witness ==
    /\ Listed
    /\ \E i \in 1..Len(last.value.items) :
          LET item == last.value.items[i]
          IN /\ item.employerId \in DOMAIN seen
             /\ seen[item.employerId] # StoredRate(item.employerId)
             /\ item.pay # computeHoursAndPay(item, seen[item.employerId]).pay


----------------------------------------------------------------------------
\* Employer documents written before the service settled on `hourlyRate`:
\* each of `rate` and `hourlyRate` may be absent, null, a string or a number.

RateFieldValues ==
    {Null, String("18"), Number(0), Number(-500), Number(1800), Number(2500)}

RateFields(f) == {<<>>} \cup {f :> v : v \in RateFieldValues}

LegacyEmployerDocuments ==
    {[ownerUserId |-> "demo-user", name |-> "Cafe",
      createdAt |-> Timestamp(0), updatedAt |-> Timestamp(0)] @@ r @@ h :
        r \in RateFields("rate"), h \in RateFields("hourlyRate")}

LegacyInit ==
    /\ shifts = <<>>
    /\ employers \in {<<>>} \cup {1 :> document : document \in LegacyEmployerDocuments}
    /\ adjustments = <<>>
    /\ now = FirstReading
    /\ seen = <<>>
    /\ inflight = [task \in Tasks |-> Idle]
    /\ listing = NotListing
    /\ last = Handled("none", None, None, 0, NoOptions, Ok(None, <<>>), 0)

LegacyNext ==
    \/ \E owner \in Owners, input \in CreateShiftInputs, id \in ShiftIds :
          CreateShiftCall(owner, input, id)
    \/ \E owner \in Owners : GetAllShiftsCall(owner, NoOptions)

LegacySpec == LegacyInit /\ [][LegacyNext]_vars

\* a rate field holding a positive number
Usable(opt) == opt # None /\ opt[1].type = "number" /\ opt[1].n > 0

NoUsableRate(e) ==
    \/ e \notin DOMAIN employers
    \/ /\ ~Usable(Field(employers[e], "rate"))
       /\ ~Usable(Field(employers[e], "hourlyRate"))

TipsOf(item) == IF item.tips = None THEN 0 ELSE item.tips[1]

\* C12: a listing never fails on a shift whose employer document is missing
\* or carries no usable rate; every shift of the owner is listed, and such a
\* shift is paid at rate 0: its pay is its tips, 0 when it has none.
C12_MissingRateIsZero ==
    Listed =>
        /\ last.ok
        /\ \A s \in DOMAIN shifts :
              shifts[s].ownerUserId = last.owner[1] =>
                \E i \in 1..Len(last.value.items) : last.value.items[i].id = s
        /\ \A i \in 1..Len(last.value.items) :
              LET item == last.value.items[i]
              IN NoUsableRate(item.employerId) => item.pay = TipsOf(item)

C12_Witness ==
    /\ Listed /\ last.ok
    /\ \E i \in 1..Len(last.value.items) :
          LET item == last.value.items[i]
          IN /\ item.employerId \in DOMAIN employers
             /\ NoUsableRate(item.employerId)
             /\ item.tips = None
             /\ item.pay = 0

\* the first of (rate, hourlyRate) that is a positive number, else 0
FirstUsableRate(e) ==
    IF e \notin DOMAIN employers THEN 0
    ELSE IF Usable(Field(employers[e], "rate")) THEN employers[e].rate.n
    ELSE IF Usable(Field(employers[e], "hourlyRate")) THEN employers[e].hourlyRate.n
    ELSE 0

\* C13: every listed shift is paid at the first of the employer's `rate` and
\* `hourlyRate` that is non-null, numeric and positive (0 when neither is),
\* so an unusable `rate` gives way to a positive `hourlyRate`.
C13_FirstUsableRateWins ==
    Listed =>
        \A i \in 1..Len(last.value.items) :
            LET item == last.value.items[i]
            IN item.pay = computeHoursAndPay(item, FirstUsableRate(item.employerId)).pay

----------------------------------------------------------------------------
\* Hours and pay of shifts of varied durations, ends before starts included.

PayOwner == "demo-user"

PayShiftInputs ==
    [employerId : {1},
     startTime : {"2025-01-01T09:00:00.000Z", "2025-01-01T17:00:00.000Z"},
     endTime : {"2025-01-01T09:00:00.000Z", "2025-01-01T09:20:00.000Z",
                "2025-01-01T17:00:00.000Z"},
     tips : {None, Some(1000)}]

PayShiftUpdates ==
    [employerId : {None}, startTime : {None, Some("2025-01-01T17:00:00.000Z")},
     endTime : {None, Some("2025-01-01T09:00:00.000Z")}, tips : {None}]

PayEmployerInputs == [name : {"Cafe"}, hourlyRate : {Number(1555), Number(2000)}]

PayNext ==
    \/ \E input \in PayShiftInputs, id \in ShiftIds : CreateShiftCall(PayOwner, input, id)
    \/ \E id \in ShiftIds, input \in PayShiftUpdates : UpdateShiftCall(PayOwner, id, input)
    \/ \E input \in PayEmployerInputs, id \in EmployerIds :
          CreateEmployerCall(PayOwner, input, id)
    \/ \E options \in ListOptions : GetAllShiftsCall(PayOwner, options)

PaySpec == Init /\ [][PayNext]_vars

Abs(n) == IF n < 0 THEN -n ELSE n

\* hundredths h of an hour nearest to a duration of the given seconds
NearestHours(h, seconds) == 2 * Abs(36 * h - seconds) <= 36

\* cents p nearest to h hundredths of an hour at the rate, plus tips
NearestPay(p, h, rate, tips) == 2 * Abs(100 * p - (h * rate + 100 * tips)) <= 100

\* C14: a listed shift's hours are its duration rounded to two decimals and
\* its pay is those rounded hours times the employer's rate plus tips,
\* rounded to two decimals; 09:00-17:00 with tips 10 at rate 20 gives
\* hours 8.00 and pay 170.00.
C14_HoursAndPay ==
    Listed =>
        \A i \in 1..Len(last.value.items) :
            LET item == last.value.items[i]
                seconds == item.endTime.t - item.startTime.t
                rate == StoredRate(item.employerId)
            IN /\ NearestHours(item.hours, seconds)
               /\ NearestPay(item.pay, item.hours, rate, TipsOf(item))
               /\ (seconds = 28800 /\ rate = 2000 /\ item.tips = Some(1000)) =>
                     (item.hours = 800 /\ item.pay = 17000)

C14_Witness ==
    /\ Listed
    /\ \E i \in 1..Len(last.value.items) :
          LET item == last.value.items[i]
          IN /\ item.endTime.t - item.startTime.t = 1200
             /\ StoredRate(item.employerId) = 1555
             /\ item.hours = 33
             /\ item.pay = 513

----------------------------------------------------------------------------
\* Listings with totals over shifts of two days and two months, one of them
\* ending before it starts, one crossing midnight, one crossing a month end.

TotalsShift(employerId, startTime, endTime, tips) ==
    [employerId |-> employerId, startTime |-> startTime, endTime |-> endTime, tips |-> tips]

\* <<owner, input>> of the createShift calls
TotalsShiftCalls ==
    {<<"demo-user", TotalsShift(1, "2025-01-01T09:00:00.000Z", "2025-01-01T17:00:00.000Z", Some(1000))>>,
     <<"demo-user", TotalsShift(1, "2025-01-01T17:00:00.000Z", "2025-01-01T09:00:00.000Z", None)>>,
     <<"demo-user", TotalsShift(1, "2025-01-01T23:00:00.000Z", "2025-01-02T01:00:00.000Z", None)>>,
     <<"demo-user", TotalsShift(1, "2025-01-31T22:00:00.000Z", "2025-02-01T02:00:00.000Z", None)>>,
     <<"demo-user", TotalsShift(2, "2025-01-01T09:00:00.000Z", "2025-01-01T09:20:00.000Z", None)>>,
     <<"B", TotalsShift(1, "2025-01-01T09:00:00.000Z", "2025-01-01T17:00:00.000Z", None)>>}

TotalsShiftUpdates ==
    [employerId : {None}, startTime : {None},
     endTime : {Some("2025-01-01T09:00:00.000Z")}, tips : {None}]

TotalsEmployerInputs == [name : {"Cafe"}, hourlyRate : {Number(2000)}]

TotalsOptions == [employerId : {None, Some(1)}, includeTotals : BOOLEAN]

TotalsNext ==
    \/ \E call \in TotalsShiftCalls, id \in ListedIds : CreateShiftCall(call[1], call[2], id)
    \/ \E id \in ListedIds, input \in TotalsShiftUpdates :
          UpdateShiftCall("demo-user", id, input)
    \/ \E input \in TotalsEmployerInputs, id \in EmployerIds :
          CreateEmployerCall("demo-user", input, id)
    \/ \E owner \in Owners, options \in TotalsOptions : GetAllShiftsCall(owner, options)

TotalsSpec == Init /\ [][TotalsNext]_vars

\* the sum of a field over the items at the given positions
RECURSIVE SumAt(_, _, _)
SumAt(items, positions, field) ==
    IF positions = {} THEN 0
    ELSE LET i == CHOOSE j \in positions : TRUE
         IN items[i][field] + SumAt(items, positions \ {i}, field)

\* days from 2025-01-01 to the first day of a month
RECURSIVE DaysBefore(_)
DaysBefore(month) ==
    IF month = 1 THEN 0 ELSE DaysBefore(month - 1) + MonthLengths[month - 1]

\* the UTC day on which an instant falls, counted from 2025-01-01
DayNumber(date) == date.t \div 86400

\* positions of the items that start on the day <<year, month, day>>
StartingOnDay(items, key) ==
    {i \in 1..Len(items) :
        DayNumber(items[i].startTime) = DaysBefore(key[2]) + key[3] - 1}

\* positions of the items that start in the month <<year, month>>
StartingInMonth(items, key) ==
    {i \in 1..Len(items) :
        /\ DayNumber(items[i].startTime) >= DaysBefore(key[2])
        /\ DayNumber(items[i].startTime) < DaysBefore(key[2]) + MonthLengths[key[2]]}

\* the day <<year, month, day>> and month <<year, month>> of an instant
DayOf(date) ==
    CHOOSE key \in {2025} \X (1..12) \X (1..31) :
        /\ key[3] <= MonthLengths[key[2]]
        /\ DaysBefore(key[2]) + key[3] - 1 = DayNumber(date)

MonthOf(date) == <<DayOf(date)[1], DayOf(date)[2]>>

Reversed(shift) == shift.endTime.t < shift.startTime.t

\* C15: a shift that ends before it starts is accepted by createShift and
\* updateShift and kept by getAllShifts: it is listed with hours <= 0
\* (< 0 from a duration that rounds to 0.01 h), paid hours x rate + tips,
\* and its negative hours and pay are added into its day and month totals.
C15_ReversedShiftKept ==
    /\ (last.op = "createShift") =>
          /\ last.ok /\ last.id \in DOMAIN shifts
          /\ shifts[last.id].startTime.t = last.value.startTime.t
          /\ shifts[last.id].endTime.t = last.value.endTime.t
    /\ (/\ last.op = "updateShift" /\ last.id \in DOMAIN shifts
        /\ shifts[last.id].ownerUserId = last.owner[1]) =>
          /\ last.ok
          /\ shifts[last.id].endTime.t = 32400
          /\ last.value.endTime.t = 32400
    /\ Listed =>
          LET items == last.value.items
          IN /\ \A s \in DOMAIN shifts :
                  (/\ Reversed(shifts[s])
                   /\ shifts[s].ownerUserId = last.owner[1]
                   /\ last.options.employerId \in {None, Some(shifts[s].employerId)}) =>
                      \E i \in 1..Len(items) : items[i].id = s
             /\ \A i \in 1..Len(items) :
                  Reversed(items[i]) =>
                    LET item == items[i]
                        seconds == item.endTime.t - item.startTime.t
                        day == DayOf(item.startTime)
                        month == MonthOf(item.startTime)
                    IN /\ item.hours <= 0
                       /\ (seconds <= -18) => (item.hours < 0)
                       /\ NearestHours(item.hours, seconds)
                       /\ NearestPay(item.pay, item.hours,
                                     StoredRate(item.employerId), TipsOf(item))
                       /\ last.value.totals # None =>
                            LET others == StartingOnDay(items, day) \ {i}
                                totals == last.value.totals[1]
                            IN /\ totals.byDay[day].hours =
                                    SumAt(items, others, "hours") + item.hours
                               /\ totals.byDay[day].pay =
                                    SumAt(items, others, "pay") + item.pay
                               /\ totals.byMonth[month].hours =
                                    SumAt(items, StartingInMonth(items, month) \ {i},
                                          "hours") + item.hours

C15_Witness ==
    /\ Listed /\ last.value.totals # None
    /\ \E i, j \in 1..Len(last.value.items) :
          LET items == last.value.items
          IN /\ Reversed(items[i]) /\ items[i].hours = -800
             /\ items[i].pay = -16000
             /\ items[j].hours = 800
             /\ last.value.totals[1].byDay[<<2025, 1, 1>>].hours = 0
             /\ last.value.totals[1].byDay[<<2025, 1, 1>>].pay = 1000

WithTotals == Listed /\ last.value.totals # None

\* C16: every byDay (byMonth) bucket holds the sums of hours and of pay of
\* the returned items whose startTime falls on that UTC day (in that UTC
\* month); the end of a shift plays no part, so a shift crossing midnight
\* or a month end counts wholly under the day and month it starts in.
C16_BucketsSumByStart ==
    WithTotals =>
        LET items == last.value.items
            totals == last.value.totals[1]
        IN /\ \A k \in DOMAIN totals.byDay :
                /\ totals.byDay[k].hours = SumAt(items, StartingOnDay(items, k), "hours")
                /\ totals.byDay[k].pay = SumAt(items, StartingOnDay(items, k), "pay")
           /\ \A k \in DOMAIN totals.byMonth :
                /\ totals.byMonth[k].hours = SumAt(items, StartingInMonth(items, k), "hours")
                /\ totals.byMonth[k].pay = SumAt(items, StartingInMonth(items, k), "pay")

C16_Witness ==
    /\ WithTotals
    /\ \E i, j \in 1..Len(last.value.items) :
          LET items == last.value.items
              totals == last.value.totals[1]
          IN /\ items[i].startTime.t = 2671200 /\ items[i].endTime.t = 2685600
             /\ items[j].startTime.t = 82800 /\ items[j].endTime.t = 90000
             /\ DOMAIN totals.byDay = {<<2025, 1, 1>>, <<2025, 1, 31>>}
             /\ DOMAIN totals.byMonth = {<<2025, 1>>}
             /\ totals.byMonth[<<2025, 1>>].hours = 600
             /\ totals.byMonth[<<2025, 1>>].pay = 12000

\* the sum of a field over the buckets of the given keys
RECURSIVE SumBuckets(_, _, _)
SumBuckets(buckets, keys, field) ==
    IF keys = {} THEN 0
    ELSE LET k == CHOOSE key \in keys : TRUE
         IN buckets[k][field] + SumBuckets(buckets, keys \ {k}, field)

\* C17: a listing carries totals exactly when includeTotals is set; the
\* totals cover the returned items and nothing else: the buckets are the
\* start days (months) of the returned items, none empty, and over all
\* buckets they add up to the hours and pay of the returned items, which
\* are the caller's shifts that pass the employer filter.
C17_TotalsOverReturnedItems ==
    Listed =>
        LET items == last.value.items
            all == 1..Len(items)
        IN /\ (last.value.totals # None) <=> last.options.includeTotals
           /\ \A i \in all :
                /\ items[i].ownerUserId = last.owner[1]
                /\ last.options.employerId \in {None, Some(items[i].employerId)}
           /\ WithTotals =>
                LET totals == last.value.totals[1]
                IN /\ DOMAIN totals.byDay = {DayOf(items[i].startTime) : i \in all}
                   /\ DOMAIN totals.byMonth = {MonthOf(items[i].startTime) : i \in all}
                   /\ \A field \in {"hours", "pay"} :
                        /\ SumBuckets(totals.byDay, DOMAIN totals.byDay, field)
                             = SumAt(items, all, field)
                        /\ SumBuckets(totals.byMonth, DOMAIN totals.byMonth, field)
                             = SumAt(items, all, field)

C17_Witness ==
    /\ WithTotals
    /\ last.options.employerId = Some(1)
    /\ Len(last.value.items) = 1
    /\ \E s \in DOMAIN shifts :
          /\ shifts[s].ownerUserId = last.owner[1]
          /\ shifts[s].employerId = 2
          /\ shifts[s].startTime.t \div 86400 = last.value.items[1].startTime.t \div 86400

----------------------------------------------------------------------------
\* C18: createShift(A, input) adds exactly one record, owned by A, holding
\* the input's employerId, startTime, endTime and tips, with createdAt equal
\* to updatedAt, and returns it under the new id; from then on
\* getShiftById(A, id) returns it, getAllShifts(A) lists it, and
\* getShiftById(B, id) fails with not-found for every other owner B.
C18_CreateThenRead ==
    /\ [][(last'.op = "createShift") =>
            \A input \in CreateShiftInputs :
                CreateShiftCall(last'.owner[1], input, last'.id) =>
                    LET id == last'.id
                    IN /\ last'.ok
                       /\ id \notin DOMAIN shifts
                       /\ DOMAIN shifts' = DOMAIN shifts \cup {id}
                       /\ \A other \in DOMAIN shifts : shifts'[other] = shifts[other]
                       /\ shifts'[id].ownerUserId = last'.owner[1]
                       /\ shifts'[id].employerId = input.employerId
                       /\ shifts'[id].startTime.t = NewDate(input.startTime).t
                       /\ shifts'[id].endTime.t = NewDate(input.endTime).t
                       /\ shifts'[id].tips = input.tips
                       /\ shifts'[id].createdAt = shifts'[id].updatedAt
                       /\ last'.value = ShiftOf(id, shifts'[id])]_vars
    /\ [](last.op = "createShift" =>
            LET id == last.id
                A == last.owner[1]
                listed == getAllShifts(A, NoOptions).value.items
            IN /\ getShiftById(A, id).ok
               /\ getShiftById(A, id).value = last.value
               /\ \E i \in 1..Len(listed) :
                     /\ listed[i].id = id
                     /\ listed[i].startTime = last.value.startTime
                     /\ listed[i].tips = last.value.tips
               /\ \A B \in Owners \ {A} :
                     /\ ~getShiftById(B, id).ok
                     /\ getShiftById(B, id).error = Some(NotFound("Shift", id)))

C18_Witness ==
    /\ last.op = "createShift"
    /\ last.owner = Some("B")
    /\ last.value.tips = Some(10)
    /\ getShiftById("B", last.id).ok
    /\ ~getShiftById("demo-user", last.id).ok

----------------------------------------------------------------------------
\* Employers are deleted while shifts and adjustments refer to them.

CascadeNext ==
    \/ \E owner \in Owners, input \in CreateShiftInputs, id \in ShiftIds :
          CreateShiftCall(owner, input, id)
    \/ \E owner \in Owners, input \in CreateEmployerInputs, id \in EmployerIds :
          CreateEmployerCall(owner, input, id)
    \/ \E owner \in Owners, input \in CreateAdjustmentInputs, id \in AdjustmentIds :
          CreateAdjustmentCall(owner, input, id)
    \/ \E owner \in Owners, id \in EmployerRefs : DeleteEmployerCall(owner, id)
    \/ \E owner \in Owners : WatchedGetAllShiftsCall(owner)

CascadeSpec == Init /\ [][CascadeNext]_vars

\* C19: deleteEmployer(A, e) removes the employer record e and nothing
\* else: shifts and adjustments referring to e stay as they are, and a
\* listing of A's shifts afterwards still holds each of them, paid at rate 0,
\* so that its pay equals its tips.
C19_DeleteEmployerOnly ==
    /\ [][(last'.op = "deleteEmployer") =>
            (DeleteEmployerCall(last'.owner[1], last'.id) =>
                /\ shifts' = shifts
                /\ adjustments' = adjustments
                /\ \A e \in DOMAIN employers' : e \in DOMAIN employers /\ employers'[e] = employers[e]
                /\ last'.ok =>
                     DOMAIN employers' = DOMAIN employers \ {last'.id})]_vars
    /\ [](Listed =>
            \A s \in DOMAIN shifts :
                (/\ shifts[s].ownerUserId = last.owner[1]
                 /\ shifts[s].employerId \notin DOMAIN employers) =>
                    \E i \in 1..Len(last.value.items) :
                        /\ last.value.items[i].id = s
                        /\ last.value.items[i].pay = TipsOf(last.value.items[i]))

\* A listing that paid a shift at rate 0 after an earlier listing had found a
\* rate for its employer, while an adjustment still refers to that employer
C19_Witness ==
    /\ Listed
    /\ \E i \in 1..Len(last.value.items) :
          LET item == last.value.items[i]
          IN /\ item.employerId \in DOMAIN seen
             /\ seen[item.employerId] > 0
             /\ item.employerId \notin DOMAIN employers
             /\ item.tips = Some(10)
             /\ item.pay = 10
             /\ \E a \in DOMAIN adjustments :
                   adjustments[a].employerId = Some(item.employerId)

----------------------------------------------------------------------------
\* Two updateShift calls of the owner run side by side: each reads the
\* shift, and writes its changes at some later step.

RaceOwner == "demo-user"

RaceShiftUpdates ==
    [employerId : {None}, startTime : {None},
     endTime : {None, Some("2025-01-01T09:20:00.000Z")},
     tips : {Some(Some(10)), Some(Some(2000))}]

\* the writes made so far by the tasks
Written == Cardinality({task \in Tasks : inflight[task].pc = "done" /\ inflight[task].writes > 0})

UpdateShiftRead(task, owner, id, input) ==
    LET existing == updateShiftRead(owner, id)
    IN /\ inflight[task].pc = "idle"
       /\ inflight' = [inflight EXCEPT ![task] =
             [pc |-> IF existing.ok THEN "read" ELSE "done",
              owner |-> Some(owner), id |-> id, input |-> Some(input),
              existing |-> Some(existing),
              out |-> IF existing.ok THEN None ELSE Some(existing),
              writes |-> 0]]
       /\ last' = IF existing.ok THEN last
                  ELSE Called("updateShift", owner, id, NoOptions, existing)
       /\ UNCHANGED <<shifts, employers, adjustments, now, seen, listing>>

UpdateShiftWrite(task) ==
    /\ inflight[task].pc = "read"
    /\ LET call == inflight[task]
           done == updateShiftWrite(call.existing[1], call.input[1])
       IN /\ shifts' = done.store
          /\ inflight' = [inflight EXCEPT ![task] =
                [call EXCEPT !.pc = "done", !.out = Some(done.out),
                             !.writes = Written + 1]]
          /\ last' = Called("updateShift", call.owner[1], call.id, NoOptions, done.out)
    /\ UNCHANGED <<employers, adjustments, now, seen, listing>>

RaceNext ==
    \/ Tick
    \/ \E input \in CreateShiftInputs, id \in ShiftIds : CreateShiftCall(RaceOwner, input, id)
    \/ \E task \in Tasks, id \in ShiftIds, input \in RaceShiftUpdates :
          UpdateShiftRead(task, RaceOwner, id, input)
    \/ \E task \in Tasks : UpdateShiftWrite(task)

RaceSpec == Init /\ [][RaceNext]_vars

\* the stored form of what an update input supplies for a field
SuppliedValue(input, f) ==
    IF f = "tips" THEN input.tips[1]
    ELSE IF f = "employerId" THEN input.employerId[1]
    ELSE Timestamp(NewDate(input[f][1]).t)

\* task p and then task q have both written their update of the same shift
BothWrote(p, q) ==
    /\ inflight[p].pc = "done" /\ inflight[q].pc = "done"
    /\ inflight[p].id = inflight[q].id
    /\ inflight[p].writes > 0
    /\ inflight[q].writes > inflight[p].writes

\* C20: two updateShift calls of the owner on one shift, whatever the order
\* of their reads and writes, both succeed; a field that both supply holds
\* the value of the call that wrote last; and each call returns the snapshot
\* it read merged with its own changes, whatever the store holds by then.
C20_LastWriteWins ==
    /\ \A task \in Tasks :
          (inflight[task].pc = "done" /\ inflight[task].existing[1].ok) =>
              LET call == inflight[task]
                  input == call.input[1]
                  returned == call.out[1].value
              IN /\ call.out[1].ok
                 /\ \A f \in DOMAIN call.existing[1].value \ {"updatedAt"} :
                       returned[f] =
                         IF f \in UpdatableShiftFields /\ input[f] # None
                         THEN (IF f \in DateFields THEN NewDate(input[f][1]) ELSE input[f][1])
                         ELSE call.existing[1].value[f]
    /\ \A p, q \in Tasks :
          BothWrote(p, q) =>
              LET id == inflight[q].id
              IN /\ shifts[id].updatedAt.t = inflight[q].out[1].value.updatedAt.t
                 /\ \A f \in UpdatableShiftFields :
                       (inflight[p].input[1][f] # None /\ inflight[q].input[1][f] # None) =>
                           shifts[id][f] = SuppliedValue(inflight[q].input[1], f)

\* Both calls read before either wrote; the first writer's tips were
\* overwritten, and the second returned an endTime the store no longer holds
C20_Witness ==
    \E p, q \in Tasks :
        /\ BothWrote(p, q)
        /\ inflight[p].existing = inflight[q].existing
        /\ inflight[p].input[1].tips = Some(Some(2000))
        /\ inflight[q].input[1].tips = Some(Some(10))
        /\ inflight[p].input[1].endTime # None
        /\ inflight[q].input[1].endTime = None
        /\ inflight[p].out[1].value.tips # shifts[inflight[p].id].tips
        /\ inflight[q].out[1].value.endTime.t # shifts[inflight[q].id].endTime.t
        /\ inflight[q].out[1].value.updatedAt.t > inflight[p].out[1].value.updatedAt.t

----------------------------------------------------------------------------
\* The routers: which handlers a request to each route passes through.

Resources == {"employers", "shifts", "adjustments"}

RoutePaths == {"GET /", "POST /", "GET /:id", "PUT /:id", "DELETE /:id"}

WriteRoutes == {"POST /", "PUT /:id", "DELETE /:id"}

\* router.<method>(path, ...handlers) of the three route files
RouteChain(resource, route) ==
    CASE resource = "employers" ->
           (CASE route = "GET /" -> <<"controller">>
              [] route \in {"POST /", "GET /:id"} -> <<"validateRequest", "controller">>
              [] OTHER -> <<"writeLimiter", "validateRequest", "controller">>)
      [] resource = "shifts" -> <<"validateRequest", "controller">>
      [] resource = "adjustments" ->
           (CASE route = "GET /" -> <<"authenticate", "controller">>
              [] route = "GET /:id" -> <<"authenticate", "validateRequest", "controller">>
              [] OTHER -> <<"authenticate", "authorize", "writeLimiter",
                            "validateRequest", "controller">>)

\* statusCode of the write limiter's refusal
TOO_MANY_REQUESTS == 429

\* What the controller answers: the success status, or the error handler's
ControllerStatus(route, serviceError) ==
    IF serviceError # None THEN errorHandler(serviceError)
    ELSE IF route = "POST /" THEN HTTP_STATUS.CREATED ELSE HTTP_STATUS.OK

\* The handlers of a chain run in order until one answers instead of calling
\* next. input: the request with what validation, the limiter and the
\* service will make of it.
RECURSIVE RunChain(_, _, _, _, _)
RunChain(chain, route, input, locals, stages) ==
    IF chain = <<>> THEN [status |-> 0, locals |-> locals, stages |-> stages]
    ELSE LET handler == Head(chain)
             ran == Append(stages, handler)
             Answer(status) == [status |-> status, locals |-> locals, stages |-> ran]
         IN CASE handler = "authenticate" ->
                   LET authenticated == authenticate(input.request)
                   IN IF authenticated.next
                      THEN RunChain(Tail(chain), route, input, authenticated.locals, ran)
                      ELSE Answer(authenticated.status)
              [] handler = "authorize" ->
                   LET authorized == authorize({"user"}, locals)
                   IN IF authorized.next
                      THEN RunChain(Tail(chain), route, input, locals, ran)
                      ELSE Answer(authorized.status)
              [] handler = "writeLimiter" ->
                   IF input.overLimit THEN Answer(TOO_MANY_REQUESTS)
                   ELSE RunChain(Tail(chain), route, input, locals, ran)
              [] handler = "validateRequest" ->
                   IF ~input.valid THEN Answer(HTTP_STATUS.BAD_REQUEST)
                   ELSE RunChain(Tail(chain), route, input, locals, ran)
              [] handler = "controller" ->
                   Answer(ControllerStatus(route, input.serviceError))

RouteInputs ==
    [request : Requests, valid : BOOLEAN, overLimit : BOOLEAN,
     serviceError : {None, Some(PlainError("not found"))}]

RouteRequest(resource, route, input) ==
    LET done == RunChain(RouteChain(resource, route), route, input, NoLocals, <<>>)
    IN /\ last' = Handled("route", done.locals.uid, None, 0, NoOptions,
                          Ok([resource |-> resource, route |-> route,
                              request |-> input.request, stages |-> done.stages], <<>>),
                          done.status)
       /\ UNCHANGED <<shifts, employers, adjustments, now, seen, inflight, listing>>

RouteNext ==
    \E resource \in Resources, route \in RoutePaths, input \in RouteInputs :
        RouteRequest(resource, route, input)

RouteSpec == Init /\ [][RouteNext]_vars

Ran(handler) == \E i \in 1..Len(last.value.stages) : last.value.stages[i] = handler

\* the request carries a bearer token that verifies
HasValidToken(request) ==
    /\ getBearerToken(request) # None
    /\ verifyIdToken(getBearerToken(request)[1]) # None

\* roles of the verified token that name no "user"
NotAUser(request) ==
    /\ HasValidToken(request)
    /\ verifyIdToken(getBearerToken(request)[1])[1].roles # None
    /\ "user" \notin verifyIdToken(getBearerToken(request)[1])[1].roles[1]

\* C21: on every route of the three resources a request without a valid
\* bearer token is answered 401 and never reaches the controller; on every
\* write route a caller whose roles lack "user" is answered 403 before
\* validation and the controller run.
C21_RoutesGuarded ==
    (last.op = "route") =>
        /\ ~HasValidToken(last.value.request) =>
              (last.status = HTTP_STATUS.UNAUTHORIZED /\ ~Ran("controller"))
        /\ (last.value.route \in WriteRoutes /\ NotAUser(last.value.request)) =>
              /\ last.status = HTTP_STATUS.FORBIDDEN
              /\ ~Ran("validateRequest") /\ ~Ran("controller")

----------------------------------------------------------------------------
\* The two middlewares called on their own, on any header and any locals.

\* Authorization headers, split at the single spaces
HeaderForms ==
    {None, Some(<<"Bearer">>), Some(<<"tokenB">>), Some(<<"Bearer", "">>),
     Some(<<"Bearer", "tokenB", "x">>), Some(<<"Bearer", "", "tokenB">>),
     Some(<<"Basic", "tokenB">>), Some(<<"Token", "tokenC">>),
     Some(<<"Bearer", "tokenB">>), Some(<<"bearer", "tokenC">>),
     Some(<<"BEARER", "tokenGuest">>), Some(<<"Bearer", "tokenGuest">>),
     Some(<<"Bearer", "forged">>), Some(<<"bearer", "expired">>)}

MiddlewareRequests == [authorization : HeaderForms, demoUserId : DemoUserHeaders]

RoleNames == {"user", "guest", "admin", "owner"}

\* response.locals as a middleware before authorize may have left it
LocalsForms ==
    [uid : {None, Some("demo-user"), Some("B"), Some("C"), Some("G")},
     roles : {None} \cup {Some(roles) : roles \in SUBSET RoleNames}]

AuthenticateCall(request) ==
    LET done == authenticate(request)
    IN /\ last' = Handled("authenticate", done.locals.uid, None, 0, NoOptions,
                          Ok([request |-> request, locals |-> done.locals,
                              nextCalls |-> IF done.next THEN 1 ELSE 0], <<>>),
                          done.status)
       /\ UNCHANGED <<shifts, employers, adjustments, now, seen, inflight, listing>>

\* authorize({ hasRole: ["user"] }), as the routes build it
AuthorizeCall(locals) ==
    LET done == authorize({"user"}, locals)
    IN /\ last' = Handled("authorize", locals.uid, None, 0, NoOptions,
                          Ok([request |-> None, locals |-> locals,
                              nextCalls |-> IF done.next THEN 1 ELSE 0], <<>>),
                          done.status)
       /\ UNCHANGED <<shifts, employers, adjustments, now, seen, inflight, listing>>

MiddlewareNext ==
    \/ \E request \in MiddlewareRequests : AuthenticateCall(request)
    \/ \E locals \in LocalsForms : AuthorizeCall(locals)

MiddlewareSpec == Init /\ [][MiddlewareNext]_vars

\* C22: authorize calls next once and answers nothing exactly when a uid is
\* present and the roles are unset or hold the required role "user"; without
\* a uid it answers 401, roles or not; with a uid and roles that lack the
\* required role it answers 403; a refusal never calls next.
C22_AuthorizeDecision ==
    (last.op = "authorize") =>
        LET locals == last.value.locals
            passed == last.value.nextCalls = 1 /\ last.status = 0
            allowed == /\ locals.uid # None
                       /\ (locals.roles = None \/ "user" \in locals.roles[1])
        IN /\ allowed <=> passed
           /\ last.value.nextCalls <= 1
           /\ locals.uid = None =>
                 (last.status = HTTP_STATUS.UNAUTHORIZED /\ last.value.nextCalls = 0)
           /\ (locals.uid # None /\ ~allowed) =>
                 (last.status = HTTP_STATUS.FORBIDDEN /\ last.value.nextCalls = 0)

\* Roles that would pass, but no uid: 401
C22_Witness ==
    /\ last.op = "authorize"
    /\ last.value.locals.uid = None
    /\ last.value.locals.roles = Some({"user"})
    /\ last.status = HTTP_STATUS.UNAUTHORIZED
    /\ last.value.nextCalls = 0

\* the header reads 'Bearer <token>': two parts, the scheme in any case, a token
BearerForm(header) ==
    /\ header # None
    /\ Len(header[1]) = 2
    /\ header[1][1] \in {"Bearer", "bearer", "BEARER"}
    /\ header[1][2] # ""

\* C23: authenticate calls next once and sets locals.uid to the verified
\* token's uid exactly when the header reads 'Bearer <token>' and the token
\* verifies; otherwise it answers 401, calls next never and sets no uid.
C23_AuthenticateDecision ==
    (last.op = "authenticate") =>
        LET header == last.value.request.authorization
            verified == IF BearerForm(header) THEN verifyIdToken(header[1][2]) ELSE None
        IN IF verified # None
           THEN /\ last.value.nextCalls = 1
                /\ last.status = 0
                /\ last.value.locals.uid = Some(verified[1].uid)
           ELSE /\ last.value.nextCalls = 0
                /\ last.status = HTTP_STATUS.UNAUTHORIZED
                /\ last.value.locals.uid = None

\* A token that verifies, under a scheme that is not Bearer: 401
C23_Witness ==
    /\ last.op = "authenticate"
    /\ last.value.request.authorization = Some(<<"Basic", "tokenB">>)
    /\ last.status = HTTP_STATUS.UNAUTHORIZED
    /\ last.value.locals.uid = None

----------------------------------------------------------------------------
\* Adjustments of two owners, linked to an employer, a shift or both, listed
\* with and without filters.

ListedAdjustmentInputs ==
    {input \in [date : {"2025-01-01T09:00:00.000Z"}, amount : {500},
                employerId : {None, Some(1)}, shiftId : {None, Some(1), Some(2)},
                note : {None}] :
        input.employerId # None \/ input.shiftId # None}

\* ?employerId=&shiftId=: absent, empty, or an id
AdjustmentListOptions ==
    [employerId : {None, Some(0), Some(1)}, shiftId : {None, Some(0), Some(1)}]

GetAllAdjustmentsCall(owner, options) ==
    /\ last' = Called("getAllAdjustments", owner, 0, options,
                      getAllAdjustments(owner, options))
    /\ UNCHANGED <<shifts, employers, adjustments, now, seen, inflight, listing>>

AdjustmentListNext ==
    \/ \E owner \in Owners, input \in ListedAdjustmentInputs, id \in ListedIds :
          CreateAdjustmentCall(owner, input, id)
    \/ \E owner \in Owners, options \in AdjustmentListOptions :
          GetAllAdjustmentsCall(owner, options)

AdjustmentListSpec == Init /\ [][AdjustmentListNext]_vars

\* whether a filter value is applied: when supplied at all, or only when it
\* is a non-empty string
Applied(filter, wheneverSupplied) ==
    IF wheneverSupplied THEN filter # None ELSE Truthy(filter)

FiltersMatch(a, wheneverSupplied) ==
    /\ Applied(last.options.employerId, wheneverSupplied) =>
          a.employerId = last.options.employerId
    /\ Applied(last.options.shiftId, wheneverSupplied) =>
          a.shiftId = last.options.shiftId

\* The listing holds, in ascending store order and once each, exactly the
\* caller's adjustments that match the applied filters
ListsExactly(wheneverSupplied) ==
    LET items == last.value
    IN /\ \A i \in 1..Len(items) :
            /\ items[i].id \in DOMAIN adjustments
            /\ items[i].ownerUserId = last.owner[1]
            /\ FiltersMatch(items[i], wheneverSupplied)
            /\ items[i].amount = adjustments[items[i].id].amount
       /\ \A i, j \in 1..Len(items) : i < j => items[i].id < items[j].id
       /\ \A a \in DOMAIN adjustments :
            (/\ adjustments[a].ownerUserId = last.owner[1]
             /\ FiltersMatch(adjustments[a], wheneverSupplied)) =>
                \E i \in 1..Len(items) : items[i].id = a

\* C24, as amended: getAllAdjustments returns exactly the owner's
\* adjustments that match both filters, in store order, where a filter that
\* is omitted or is the empty string matches everything.
C24_FiltersConjoined ==
    (last.op = "getAllAdjustments") => ListsExactly(FALSE)

\* Both filters given: an adjustment matching only one of them is left out
C24_Witness ==
    /\ last.op = "getAllAdjustments"
    /\ last.options = [employerId |-> Some(1), shiftId |-> Some(1)]
    /\ Len(last.value) = 1
    /\ \E a \in DOMAIN adjustments :
          /\ adjustments[a].ownerUserId = last.owner[1]
          /\ adjustments[a].employerId = Some(1)
          /\ adjustments[a].shiftId # Some(1)

\* C24, as stated: getAllAdjustments returns exactly the owner's
\* adjustments that match every supplied filter, in store order; only an
\* omitted filter matches everything.
C24_SuppliedFiltersMatch ==
    (last.op = "getAllAdjustments") => ListsExactly(TRUE)

-----------------------------------------------------------------------------
\* Ownership over every write path: both owners create, update and delete
\* in all three collections.  Every update body also names another owner
\* in an `ownerUserId` field, which no service reads.

OwnershipShiftUpdates ==
    [employerId : {None}, startTime : {None}, endTime : {None},
     tips : {None, Some(Some(2000))}, ownerUserId : {Some(o) : o \in Owners}]

OwnershipEmployerUpdates ==
    [name : {None}, hourlyRate : {Some(Number(1500))}, ownerUserId : {Some(o) : o \in Owners}]

OwnershipAdjustmentUpdates ==
    [date : {None}, amount : {Some(500)}, employerId : {None},
     shiftId : {None}, note : {None}, ownerUserId : {Some(o) : o \in Owners}]

OwnershipCreate ==
    \E owner \in Owners :
       \/ \E id \in ShiftIds, input \in CreateShiftInputs :
             input.tips = Some(10) /\ CreateShiftCall(owner, input, id)
       \/ \E id \in EmployerIds, input \in CreateEmployerInputs :
             CreateEmployerCall(owner, input, id)
       \/ \E id \in AdjustmentIds, input \in CreateAdjustmentInputs :
             CreateAdjustmentCall(owner, input, id)

OwnershipUpdate ==
    \E owner \in Owners :
       \/ \E id \in ShiftRefs, input \in OwnershipShiftUpdates :
             input.ownerUserId # Some(owner) /\ UpdateShiftCall(owner, id, input)
       \/ \E id \in EmployerRefs, input \in OwnershipEmployerUpdates :
             input.ownerUserId # Some(owner) /\ UpdateEmployerCall(owner, id, input)
       \/ \E id \in AdjustmentRefs, input \in OwnershipAdjustmentUpdates :
             input.ownerUserId # Some(owner) /\ UpdateAdjustmentCall(owner, id, input)

OwnershipDelete ==
    \E owner \in Owners :
       \/ \E id \in ShiftRefs : DeleteShiftCall(owner, id)
       \/ \E id \in EmployerRefs : DeleteEmployerCall(owner, id)
       \/ \E id \in AdjustmentRefs : DeleteAdjustmentCall(owner, id)

OwnershipNext == OwnershipCreate \/ OwnershipUpdate \/ OwnershipDelete

OwnershipSpec == Init /\ [][OwnershipNext]_vars

\* The records of a collection that exist before and after a step keep
\* their owner
KeepsOwners(before, after) ==
    \A id \in DOMAIN before \cap DOMAIN after :
       after[id].ownerUserId = before[id].ownerUserId

\* C25: over any sequence of create, update and delete operations by any
\* callers, the ownerUserId of a stored Employer, Shift or Adjustment never
\* changes after creation: no step moves a record to another owner.
C25_OwnerNeverChanges ==
    [][/\ KeepsOwners(shifts, shifts')
       /\ KeepsOwners(employers, employers')
       /\ KeepsOwners(adjustments, adjustments')]_vars

\* An owner's update that named the other owner took effect, and the
\* record is still the caller's
C25_Witness ==
    /\ last.op = "updateShift"
    /\ last.ok
    /\ last.owner = Some("B")
    /\ shifts[last.id].tips = Some(2000)
    /\ shifts[last.id].ownerUserId = "B"

-----------------------------------------------------------------------------
\* The employer API: the body schemas of employerValidation.ts, applied by
\* validateRequest with convert: true, in front of the employer controller
\* and service.

\* A JSON number of a request body, in thousandths, so that bodies carry
\* values finer than the two decimals the schema keeps
JsonNumber(thousandths) == [type |-> "number", thousandths |-> thousandths]

\* Joi's reading of a string as a number
ParseNumber(s) ==
    CASE s = "15" -> Some(15000)
      [] s = "-3" -> Some(-3000)
      [] OTHER -> None

\* String.prototype.trim on the names in use
Trim(s) ==
    CASE s = " " -> ""
      [] s = " Cafe " -> "Cafe"
      [] OTHER -> s

Valid(value) == [ok |-> TRUE, value |-> value]
Invalid == [ok |-> FALSE, value |-> None]

\* Joi.string().trim().min(1).max(80)
name(value) ==
    IF Trim(value) = "" THEN Invalid ELSE Valid(Trim(value))

\* The schema without its sign rule
hourlyRate_unsigned(value) ==
    LET number == CASE value.type = "number" -> Some(value.thousandths)
                    [] value.type = "string" -> ParseNumber(value.s)
                    [] OTHER -> None
    IN IF number = None THEN Invalid
       ELSE Valid(Number(RoundDiv(number[1], 10)))

\* Joi.number().positive().precision(2): a number, or a string that reads
\* as one, rounded to two decimals and then required to be above zero
hourlyRate(value) ==
    LET number == CASE value.type = "number" -> Some(value.thousandths)
                    [] value.type = "string" -> ParseNumber(value.s)
                    [] OTHER -> None
    IN IF number = None THEN Invalid
       ELSE LET rounded == RoundDiv(number[1], 10)
            IN IF rounded > 0 THEN Valid(Number(rounded)) ELSE Invalid

\* employerSchemas.create.body: both fields required
EmployerCreateSchema(body) ==
    IF body.name = None \/ body.hourlyRate = None THEN Invalid
    ELSE LET n == name(body.name[1])
             r == hourlyRate(body.hourlyRate[1])
         IN IF n.ok /\ r.ok THEN Valid([name |-> n.value, hourlyRate |-> r.value])
            ELSE Invalid

\* employerSchemas.update.body: both fields optional, at least one key
EmployerUpdateSchema(body) ==
    LET n == IF body.name = None THEN Valid(None)
             ELSE LET checked == name(body.name[1])
                  IN IF checked.ok THEN Valid(Some(checked.value)) ELSE Invalid
        r == IF body.hourlyRate = None THEN Valid(None)
             ELSE LET checked == hourlyRate(body.hourlyRate[1])
                  IN IF checked.ok THEN Valid(Some(checked.value)) ELSE Invalid
    IN IF body.name = None /\ body.hourlyRate = None THEN Invalid
       ELSE IF n.ok /\ r.ok THEN Valid([name |-> n.value, hourlyRate |-> r.value])
       ELSE Invalid

EmployerBodies ==
    [name : {None, Some("Cafe"), Some(" ")},
     hourlyRate : {None, Some(Null), Some(String("abc")), Some(String("15")),
                   Some(String("-3")), Some(JsonNumber(-15000)), Some(JsonNumber(0)),
                   Some(JsonNumber(4)), Some(JsonNumber(5)), Some(JsonNumber(15555))}]

EmployerRequests == [authorization : {None}, demoUserId : DemoUserHeaders]

\* A request that a middleware answered before the controller
Rejected(op, id, body, status) ==
    Handled(op, None, None, id, body,
            [ok |-> FALSE, error |-> None, value |-> None, calls |-> <<>>], status)

\* POST /employers: validateRequest(employerSchemas.create), createEmployer
CreateEmployerRequest(request, body, id) ==
    LET checked == EmployerCreateSchema(body)
        ownerUserId == resolveOwnerUserId(request)
        done == createEmployer(ownerUserId, checked.value, id)
    IN /\ id \notin DOMAIN employers
       /\ IF ~checked.ok
          THEN /\ last' = Rejected("POST /employers", 0, body, HTTP_STATUS.BAD_REQUEST)
               /\ UNCHANGED employers
          ELSE /\ employers' = done.store
               /\ last' = Handled("POST /employers", None, Some(ownerUserId), id, body,
                                  done.out, HTTP_STATUS.CREATED)
       /\ UNCHANGED <<shifts, adjustments, now, seen, inflight, listing>>

\* PUT /employers/:id: writeLimiter, validateRequest(employerSchemas.update),
\* updateEmployer
UpdateEmployerRequest(request, body, id, overLimit) ==
    LET checked == EmployerUpdateSchema(body)
        ownerUserId == resolveOwnerUserId(request)
        done == updateEmployer(ownerUserId, id, checked.value)
    IN /\ IF overLimit
          THEN /\ last' = Rejected("PUT /employers/:id", id, body, TOO_MANY_REQUESTS)
               /\ UNCHANGED employers
          ELSE IF ~checked.ok
          THEN /\ last' = Rejected("PUT /employers/:id", id, body, HTTP_STATUS.BAD_REQUEST)
               /\ UNCHANGED employers
          ELSE /\ employers' = done.store
               /\ last' = Handled("PUT /employers/:id", None, Some(ownerUserId), id, body,
                                  done.out,
                                  IF done.out.ok THEN HTTP_STATUS.OK
                                  ELSE errorHandler(Some(PlainError(done.out.error[1]))))
       /\ UNCHANGED <<shifts, adjustments, now, seen, inflight, listing>>

EmployerApiNext ==
    \/ \E request \in EmployerRequests, body \in EmployerBodies, id \in EmployerIds :
          CreateEmployerRequest(request, body, id)
    \/ \E request \in EmployerRequests, body \in EmployerBodies, id \in EmployerRefs,
          overLimit \in BOOLEAN :
          UpdateEmployerRequest(request, body, id, overLimit)

EmployerApiSpec == Init /\ [][EmployerApiNext]_vars

\* C26: after any sequence of employer create and update requests through
\* the API, every stored Employer has a numeric hourlyRate above zero: no
\* accepted create or update stores a zero, negative or missing rate.
C26_StoredRatePositive ==
    \A id \in DOMAIN employers :
       /\ employers[id].hourlyRate # None
       /\ employers[id].hourlyRate.type = "number"
       /\ employers[id].hourlyRate.n > 0

\* An update with the smallest rate that survives the rounding was
\* accepted, after the same employer was created from a numeric string
C26_Witness ==
    /\ last.op = "PUT /employers/:id"
    /\ last.status = HTTP_STATUS.OK
    /\ last.options.hourlyRate = Some(JsonNumber(5))
    /\ employers[last.id].hourlyRate = Number(1)

-----------------------------------------------------------------------------
\* Deleting shifts: two owners create, read, update, delete and list the
\* shifts of one employer.

DeletedShiftInputs ==
    [employerId : {1}, startTime : {"2025-01-01T09:00:00.000Z"},
     endTime : {"2025-01-01T17:00:00.000Z"}, tips : {Some(1000)}]

DeletedShiftUpdates ==
    [employerId : {None}, startTime : {None}, endTime : {None},
     tips : {Some(Some(2000))}]

DeleteNext ==
    \/ \E owner \in Owners, input \in DeletedShiftInputs, id \in ListedIds :
          CreateShiftCall(owner, input, id)
    \/ \E input \in CreateEmployerInputs, id \in EmployerIds :
          CreateEmployerCall("demo-user", input, id)
    \/ \E owner \in Owners, id \in ListedIds : GetShiftByIdCall(owner, id)
    \/ \E owner \in Owners, id \in ListedIds, input \in DeletedShiftUpdates :
          UpdateShiftCall(owner, id, input)
    \/ \E owner \in Owners, id \in ListedIds : DeleteShiftCall(owner, id)
    \/ \E owner \in Owners, options \in TotalsOptions : GetAllShiftsCall(owner, options)

DeleteSpec == Init /\ [][DeleteNext]_vars

\* The call just made named a shift that was not in the store
OnAbsentShift ==
    /\ last'.op \in {"getShiftById", "updateShift", "deleteShift"}
    /\ last'.id \notin DOMAIN shifts

\* C27: a successful deleteShift(A, id) removes the shift; from then on,
\* until a createShift stores a shift under that id, getShiftById,
\* updateShift and deleteShift of the id fail with the not-found error and
\* change nothing, and getAllShifts lists only stored shifts, its totals
\* being the sums over the listed items.
C27_DeletedStaysGone ==
    [][/\ (last'.op = "deleteShift" /\ last'.ok) =>
             (last'.id \in DOMAIN shifts /\ last'.id \notin DOMAIN shifts')
       /\ \A id \in (DOMAIN shifts') \ (DOMAIN shifts) :
             last'.op = "createShift" /\ last'.id = id
       /\ OnAbsentShift =>
             /\ ~last'.ok
             /\ last'.error = Some(NotFound("Shift", last'.id))
             /\ shifts' = shifts
       /\ (last'.op = "getAllShifts") =>
             LET items == last'.value.items
                 all == 1..Len(items)
             IN /\ \A i \in all : items[i].id \in DOMAIN shifts
                /\ last'.value.totals # None =>
                      \A field \in {"hours", "pay"} :
                         SumBuckets(last'.value.totals[1].byDay,
                                    DOMAIN last'.value.totals[1].byDay, field)
                            = SumAt(items, all, field)]_vars

\* A shift of demo-user was deleted while their other shift stays
C27_Witness ==
    /\ last.op = "deleteShift"
    /\ last.ok
    /\ last.owner = Some("demo-user")
    /\ last.id \notin DOMAIN shifts
    /\ \E id \in DOMAIN shifts : shifts[id].ownerUserId = "demo-user"

-----------------------------------------------------------------------------
\* updateShift against deleteShift: the update is split at its await
\* between the ownership read and the store write, and a delete may run in
\* between.

\* No call in flight has read the shift stored under the id: the store
\* hands out ids it never used
FreshId(id) ==
    \A task \in Tasks : inflight[task].pc = "read" => inflight[task].id # id

CreateFreshShift(owner, input, id) ==
    FreshId(id) /\ CreateShiftCall(owner, input, id)

DeleteRaceNext ==
    \/ \E input \in CreateShiftInputs, id \in ShiftIds :
          CreateFreshShift(RaceOwner, input, id)
    \/ \E task \in Tasks, id \in ShiftIds, input \in RaceShiftUpdates :
          UpdateShiftRead(task, RaceOwner, id, input)
    \/ \E task \in Tasks : UpdateShiftWrite(task)
    \/ \E id \in ShiftIds : DeleteShiftCall(RaceOwner, id)

DeleteRaceSpec == Init /\ [][DeleteRaceNext]_vars

\* The task writes in this step, after the shift it read was deleted
WritesAfterDelete(task) ==
    /\ inflight[task].pc = "read"
    /\ inflight'[task].pc = "done"
    /\ inflight[task].id \notin DOMAIN shifts

-----------------------------------------------------------------------------
\* getAllShifts step by step: the call awaits the shift documents, then
\* one rate lookup for each shift whose employer is not in its cache yet,
\* while employers are created, updated and deleted in between.

\* One turn of the loop that always looks the rate up
ResolveRate_noCache(shiftItem, employerRateCache) ==
    LET employerRate == getEmployerHourlyRate(shiftItem.employerId)
    IN [employerRate |-> employerRate,
        employerRateCache |-> (shiftItem.employerId :> employerRate) @@ employerRateCache,
        fetched |-> TRUE]

\* One turn of the loop: the rate from the cache, or looked up and cached
ResolveRate(shiftItem, employerRateCache) ==
    LET cached == CacheGet(employerRateCache, shiftItem.employerId)
        employerRate == IF cached = None
                        THEN getEmployerHourlyRate(shiftItem.employerId)
                        ELSE cached[1]
    IN [employerRate |-> employerRate,
        employerRateCache |-> IF cached = None
                              THEN (shiftItem.employerId :> employerRate) @@ employerRateCache
                              ELSE employerRateCache,
        fetched |-> cached = None]

GetAllShiftsStart(owner, options) ==
    /\ listing.pc = "idle"
    /\ listing' = [pc |-> "enrich", owner |-> Some(owner), options |-> options,
                   userShifts |-> UserShifts(owner, options.employerId),
                   i |-> 1, employerRateCache |-> <<>>, shiftsWithComputed |-> <<>>,
                   calls |-> <<Call("getDocuments", "shifts", 0)>>]
    /\ UNCHANGED <<shifts, employers, adjustments, now, last, seen, inflight>>

GetAllShiftsEnrich ==
    /\ listing.pc = "enrich"
    /\ listing.i <= Len(listing.userShifts)
    /\ LET shiftItem == listing.userShifts[listing.i]
           resolved == ResolveRate(shiftItem, listing.employerRateCache)
           computed == computeHoursAndPay(shiftItem, resolved.employerRate)
       IN listing' = [listing EXCEPT
             !.i = @ + 1,
             !.employerRateCache = resolved.employerRateCache,
             !.shiftsWithComputed = Append(@, ShiftWithComputed(shiftItem, computed)),
             !.calls = IF resolved.fetched
                       THEN Append(@, Call("getDocumentById", "employers",
                                           shiftItem.employerId))
                       ELSE @]
    /\ UNCHANGED <<shifts, employers, adjustments, now, last, seen, inflight>>

GetAllShiftsReturn ==
    /\ listing.pc = "enrich"
    /\ listing.i > Len(listing.userShifts)
    /\ LET items == listing.shiftsWithComputed
           totals == IF listing.options.includeTotals
                     THEN Some([byDay |-> aggregateTotals(items, DayKey(items)),
                                byMonth |-> aggregateTotals(items, MonthKey(items))])
                     ELSE None
       IN last' = Called("getAllShifts", listing.owner[1], 0, listing.options,
                         Ok([items |-> items, totals |-> totals], listing.calls))
    /\ listing' = NotListing
    /\ UNCHANGED <<shifts, employers, adjustments, now, seen, inflight>>

SteppedShiftInputs ==
    [employerId : EmployerIds, startTime : {"2025-01-01T09:00:00.000Z"},
     endTime : {"2025-01-01T17:00:00.000Z"}, tips : {None}]

SteppedEmployerUpdates == [name : {None}, hourlyRate : {Some(Number(2000))}]

SteppedOptions == [employerId : {None}, includeTotals : {TRUE}]

SteppedNext ==
    \/ \E input \in SteppedShiftInputs, id \in ListedIds :
          CreateShiftCall("demo-user", input, id)
    \/ \E input \in CreateEmployerInputs, id \in EmployerIds :
          CreateEmployerCall("demo-user", input, id)
    \/ \E id \in EmployerIds, input \in SteppedEmployerUpdates :
          UpdateEmployerCall("demo-user", id, input)
    \/ \E id \in EmployerIds : DeleteEmployerCall("demo-user", id)
    \/ \E options \in SteppedOptions : GetAllShiftsStart("demo-user", options)
    \/ GetAllShiftsEnrich
    \/ GetAllShiftsReturn

SteppedSpec == Init /\ [][SteppedNext]_vars

\* The rates an employer document of this specification can resolve to
SteppedRates == {0, 1500, 2000}

\* C29: within one getAllShifts call every shift of the same employer is
\* paid at one rate, also when the employer is updated or deleted while the
\* call awaits its rate lookups.
C29_OneRatePerEmployer ==
    Listed =>
        LET items == last.value.items
        IN \A e \in {items[i].employerId : i \in 1..Len(items)} :
              \E rate \in SteppedRates :
                 \A i \in 1..Len(items) :
                    items[i].employerId = e =>
                       NearestPay(items[i].pay, items[i].hours, rate, TipsOf(items[i]))

\* A listing of two shifts of one employer came back at the rate of the
\* first lookup, the employer's rate having changed before the call ended
C29_Witness ==
    /\ Listed
    /\ Len(last.value.items) = 2
    /\ last.value.items[1].employerId = last.value.items[2].employerId
    /\ last.value.items[1].pay = 12000
    /\ last.value.items[2].pay = 12000
    /\ StoredRate(last.value.items[1].employerId) = 2000

-----------------------------------------------------------------------------
\* Listings beside the employers of another user: both owners create and
\* update employers, demo-user creates shifts that name an employer id and
\* lists them.

ForeignShiftInputs ==
    [employerId : EmployerIds, startTime : {"2025-01-01T09:00:00.000Z"},
     endTime : {"2025-01-01T17:00:00.000Z"}, tips : {None, Some(1000)}]

ForeignNext ==
    \/ \E owner \in Owners, input \in CreateEmployerInputs, id \in EmployerIds :
          CreateEmployerCall(owner, input, id)
    \/ \E owner \in Owners, id \in EmployerIds, input \in SteppedEmployerUpdates :
          UpdateEmployerCall(owner, id, input)
    \/ \E owner \in Owners, id \in EmployerIds : DeleteEmployerCall(owner, id)
    \/ \E input \in ForeignShiftInputs, id \in ShiftIds :
          CreateShiftCall("demo-user", input, id)
    \/ \E options \in TotalsOptions : GetAllShiftsCall("demo-user", options)

ForeignSpec == Init /\ [][ForeignNext]_vars

\* The rate of the employer in a store without the employers of others
OwnRate(owner, e) ==
    IF e \in DOMAIN employers /\ employers[e].ownerUserId = owner
    THEN StoredRate(e) ELSE 0

\* C30: the items and totals of getAllShifts(A) do not depend on the
\* employers of other users: they are what the store without those
\* employers gives, a shift that names such an employer being paid as one
\* whose employer is missing.
C30_ForeignEmployersIgnored ==
    Listed =>
        LET items == last.value.items
            all == 1..Len(items)
        IN /\ \A i \in all :
                NearestPay(items[i].pay, items[i].hours,
                           OwnRate(last.owner[1], items[i].employerId), TipsOf(items[i]))
           /\ WithTotals =>
                SumBuckets(last.value.totals[1].byDay,
                           DOMAIN last.value.totals[1].byDay, "pay")
                   = SumAt(items, all, "pay")
====
